---- MODULE Spec2Model ----
(***************************************************************************)
(* A model of the two polling state machines of the placement demo:        *)
(*   - DeviceClient (src/demo/device.py): the OAuth2 device-flow client,   *)
(*     make_request / poll_for_token / poll_for_token_loop;                *)
(*   - Placement (src/demo/condor.py): the rate-limited status cache,      *)
(*     _update_status / status / show_status / monitor_jobs.               *)
(* SpecDevice is the device client, SpecPlacement the placement's status   *)
(* updates, SpecMonitor the placement's monitor_jobs, SpecToken the token  *)
(* file and get_token_state of src/demo/common.py.  SpecSession is the     *)
(* device client with the history of its session kept, SpecMonitorLive the *)
(* monitor loop under weak fairness, for the runs that never end, SpecLoop *)
(* the polling loop answered only with "keep polling", SpecWidget the      *)
(* click handler of DeviceWidgets (src/demo/demowidgets.py), and           *)
(* SpecInstances two clients and two placements side by side.              *)
(* Time is an integer number of seconds read from one clock, time.time().  *)
(***************************************************************************)
EXTENDS Integers, Sequences, FiniteSets, TLC

VARIABLES
    clock,                      \* time.time()
    \* ---- DeviceClient fields (device.py 38-47)
    device_code,
    expires_at,
    interval,
    user_code,
    verification_uri,
    verification_uri_complete,
    request_in_progress,
    \* ---- DeviceClient: control state and the observable result of a call
    pc,                         \* position inside poll_for_token_loop, or "idle"
    ret,                        \* what the most recent call returned or raised
    sent,                       \* poll requests sent by the most recent / running call
    \* ---- DeviceClient: history of the run, read by the properties only
    mr_resp,                    \* response seen by make_request, when it was the most recent call
    mr_time,                    \* clock value read by that make_request
    ever_succeeded,             \* some make_request has reached line 89
    interval0,                  \* value last assigned to interval by make_request (line 77)
    n_slow,                     \* slow_down responses processed since that assignment
    last_resp,                  \* response seen by the last poll of the most recent call
    loop_start_interval,        \* interval when the running / most recent loop was entered
    loop_resps,                 \* errors of the polls of that loop that returned None
    sleeps,                     \* durations of the sleeps of that loop
    sess,                       \* the session a make_request started (SpecSession only)
    \* ---- Placement fields (condor.py 205-223)
    status_last_update,
    status_next_update,
    status,                     \* self._status
    \* ---- Placement.monitor_jobs: control state and outcome
    mpc,                        \* position inside monitor_jobs, or "idle"
    end_time,                   \* local of monitor_jobs (line 324)
    mret,                       \* how the most recent monitor_jobs call went
    \* ---- Placement: history of the run, read by the properties only
    upd,                        \* the most recent _update_status call (SpecPlacement only)
    \* ---- The token file (common.py 28-83)
    token_file,                 \* ~/.condor/tokens.d/<token_filename>
    token_ret,                  \* what get_token_state did, when it was the last thing to happen
    \* ---- DeviceWidgets (demowidgets.py 92-188)
    wid,                        \* the widgets and the run of on_request_token_click (SpecWidget only)
    \* ---- Two clients and two placements side by side
    inst                        \* their fields (SpecInstances only)

dvars == <<device_code, expires_at, interval, user_code, verification_uri,
           verification_uri_complete, request_in_progress, pc, ret, sent,
           mr_resp, mr_time, ever_succeeded, interval0, n_slow, last_resp,
           loop_start_interval, loop_resps, sleeps, sess>>

pvars == <<status_last_update, status_next_update, status, mpc, end_time, mret, upd>>

tvars == <<token_file, token_ret>>

wvars == <<wid, inst>>

vars == <<clock, dvars, pvars, tvars, wvars>>

----------------------------------------------------------------------------
(* Bounds of the model *)

StartTime == 1
MaxTime == 26                   \* last clock value of the device client's runs
MaxSlowDowns == 2
MaxTimeSession == 16            \* last clock value of the runs of SpecSession
MaxTimeMonitor == 76            \* last clock value of the runs of monitor_jobs
MaxTimeToken == 4               \* last clock value of the runs of get_token_state
MaxTimeWidget == 16             \* last clock value of the runs of the widgets
MaxTimeInstances == 11          \* last clock value of the runs of SpecInstances

----------------------------------------------------------------------------
(* JSON values and the Python conversions applied to them *)

NoKey == "<no key>"             \* the key is absent from the JSON object

JInt(n)  == [k |-> "int",  n |-> n]     \* the JSON number n
JHalf(n) == [k |-> "half", n |-> n]     \* the JSON number n + 0.5
JStr(n)  == [k |-> "str",  n |-> n]     \* the JSON string holding the decimal digits of n
JBad     == [k |-> "bad",  n |-> 0]     \* a JSON string that is not a number
JNull    == [k |-> "null", n |-> 0]     \* JSON null
JAbsent  == [k |-> "absent", n |-> 0]   \* the key is absent
JBool(b) == [k |-> "bool", n |-> IF b THEN 1 ELSE 0]    \* JSON true / false
JHuge    == [k |-> "huge", n |-> 0]     \* a JSON integer of 310 to 4300 digits
JList    == [k |-> "list", n |-> 0]     \* a JSON array

\* int(v): truncates a float, parses a string of digits, ValueError on any
\* other string, TypeError on None.
PyInt(v) ==
    CASE v.k \in {"int", "half", "str"} -> [ok |-> TRUE, v |-> v.n, exc |-> "none"]
      [] v.k = "bad"  -> [ok |-> FALSE, v |-> 0, exc |-> "ValueError"]
      [] OTHER        -> [ok |-> FALSE, v |-> 0, exc |-> "TypeError"]

\* float(v), on the values given to it here (no fractional number is drawn):
\* a bool is an int, a string of digits is parsed, any other string gives
\* ValueError, an int beyond the range of a float gives OverflowError, and
\* None or a list gives TypeError.
PyFloat(v) ==
    CASE v.k \in {"int", "str", "bool"} -> [ok |-> TRUE, v |-> v.n, exc |-> "none"]
      [] v.k = "bad"  -> [ok |-> FALSE, v |-> 0, exc |-> "ValueError"]
      [] v.k = "huge" -> [ok |-> FALSE, v |-> 0, exc |-> "OverflowError"]
      [] OTHER        -> [ok |-> FALSE, v |-> 0, exc |-> "TypeError"]

\* Line 77: the interval of a response that gives none.
DEFAULT_INTERVAL == 5

\* Line 118: what a slow_down answer adds to the interval.
INTERVAL_STEP == 5

----------------------------------------------------------------------------
(* Results of calls *)

NoToken == "<none>"

Returned(op, kind, token) ==
    [op |-> op, kind |-> kind, exc |-> "none", msg |-> "", token |-> token]

Raised(op, exc, msg) ==
    [op |-> op, kind |-> "raise", exc |-> exc, msg |-> msg, token |-> NoToken]

Running(op) == Returned(op, "running", NoToken)

----------------------------------------------------------------------------
(* DeviceClient.make_request *)

Session ==
    [device_code |-> device_code, expires_at |-> expires_at, interval |-> interval,
     user_code |-> user_code, verification_uri |-> verification_uri,
     verification_uri_complete |-> verification_uri_complete,
     request_in_progress |-> request_in_progress]

\* JSON bodies of the server's answers to the initial request.
MRJsonBodies ==
    [kind : {"json"},
     device_code : {NoKey, "dcA", "dcB"},
     expires_in : {JAbsent, JInt(10), JStr(30), JBad, JNull},
     interval : {JAbsent, JInt(10), JHalf(10), JBad},
     user_code : {NoKey, "ucA"},
     verification_uri : {NoKey, "uriA"},
     verification_uri_complete : {NoKey, "uricA"}]

\* The fields of a body that make_request cannot use, in the order it reads them.
Defects(r) ==
    {f \in {"device_code", "user_code", "verification_uri"} : r[f] = NoKey}
    \cup (IF r.expires_in \in {JAbsent, JBad, JNull} THEN {"expires_in"} ELSE {})
    \cup (IF r.interval = JBad THEN {"interval"} ELSE {})

MRFailure(kind) ==
    [kind |-> kind, device_code |-> NoKey, expires_in |-> JAbsent, interval |-> JAbsent,
     user_code |-> NoKey, verification_uri |-> NoKey, verification_uri_complete |-> NoKey]

\* The answers drawn: every usable body, the bodies with one unusable field
\* (their optional fields absent, their other fields those of one usable
\* body), and the three failures before the body is read.
MRResponses ==
    {r \in MRJsonBodies : Defects(r) = {}}
    \cup {r \in MRJsonBodies : /\ Cardinality(Defects(r)) = 1
                                /\ r.verification_uri_complete = NoKey
                                /\ r.interval \in {JAbsent, JBad}
                                /\ r.device_code \in {NoKey, "dcA"}
                                /\ r.expires_in # JStr(30)}
    \cup {MRFailure("conn_error"), MRFailure("http_error"), MRFailure("non_json")}

\* The answers drawn in the runs that follow a session from one make_request
\* to the next: the usable bodies without the optional URI, one body without
\* user_code, and the four failures before the body is read, an HTTP error
\* status coming without ("http_error") or with ("http_error_json") a JSON
\* body that has the key "error" (lines 63-67).
SessionResponses ==
    {r \in MRJsonBodies : /\ Defects(r) \in {{}, {"user_code"}}
                          /\ r.verification_uri_complete = NoKey
                          /\ r.interval \in {JAbsent, JInt(10)}
                          /\ r.expires_in \in {JInt(10), JStr(30)}
                          /\ Defects(r) # {} =>
                                /\ r.device_code = "dcA"
                                /\ r.interval = JAbsent
                                /\ r.expires_in = JInt(10)}
    \cup {MRFailure(k) : k \in {"conn_error", "http_error", "http_error_json", "non_json"}}

\* The answers drawn in the runs of SpecLoop: usable bodies that give the
\* interval as 10, as -20, or not at all.
LoopResponses ==
    {[r EXCEPT !.interval = iv] :
        r \in {b \in MRJsonBodies : /\ Defects(b) = {}
                                   /\ b.device_code = "dcA"
                                   /\ b.interval = JAbsent
                                   /\ b.verification_uri_complete = NoKey},
        iv \in {JAbsent, JInt(10), JInt(-20)}}

MR == "make_request"

NoResponse == [kind |-> "none", status |-> 0, error |-> NoKey,
               access_token |-> NoKey, token_type |-> NoKey]

ForgetMakeRequest == mr_resp' = MRFailure("none") /\ mr_time' = 0

Unexpected(op, msg) == Raised(op, "DeviceClientUnexpectedOutput", msg)

\* What a conversion failure inside the try block of lines 73-88 becomes:
\* ValueError is caught and wrapped, TypeError is not caught.
ConversionFailure(exc) ==
    IF exc = "ValueError"
    THEN Unexpected(MR, "Server responded with unexpected output")
    ELSE Raised(MR, exc, "")

\* Line 76: the absolute deadline of the session.
ExpiresAt_NoClock(now, expires_in) == expires_in

ExpiresAt(now, expires_in) == now + expires_in

\* Lines 49-90: the session after the call and the call's result.  The
\* assignments of lines 74-82 take effect one by one, so a failure part-way
\* leaves the earlier ones in place.
MakeRequestEffect(s, resp, now) ==
    LET s1 == [s EXCEPT !.device_code = resp.device_code]
        fl == PyFloat(resp.expires_in)
        s2 == [s1 EXCEPT !.expires_at = ExpiresAt(now, fl.v)]
        iv == IF resp.interval = JAbsent
              THEN [ok |-> TRUE, v |-> DEFAULT_INTERVAL, exc |-> "none"]
              ELSE PyInt(resp.interval)
        s3 == [s2 EXCEPT !.interval = iv.v]
        s4 == [s3 EXCEPT !.user_code = resp.user_code]
        s5 == [s4 EXCEPT !.verification_uri = resp.verification_uri]
        s6 == [s5 EXCEPT !.verification_uri_complete =
                    IF resp.verification_uri_complete = NoKey
                    THEN s5.verification_uri
                    ELSE resp.verification_uri_complete]
        missing == Unexpected(MR, "Server response missing")
    IN  CASE resp.kind = "conn_error" ->
               [s |-> s, line |-> 56,
                ret |-> Raised(MR, "DeviceClientError", "Initial request failed to connect to server")]
          [] resp.kind = "http_error" ->
               [s |-> s, line |-> 68,
                ret |-> Raised(MR, "DeviceClientError", "Initial request resulted in")]
          [] resp.kind = "http_error_json" ->
               [s |-> s, line |-> 68,
                ret |-> Raised(MR, "DeviceClientError",
                               "Initial request resulted in; message from server")]
          [] resp.kind = "non_json" ->
               [s |-> s, line |-> 72, ret |-> Unexpected(MR, "Invalid JSON")]
          [] OTHER ->
               IF resp.device_code = NoKey THEN [s |-> s, line |-> 74, ret |-> missing]
               ELSE IF resp.expires_in = JAbsent THEN [s |-> s1, line |-> 75, ret |-> missing]
               ELSE IF ~fl.ok THEN [s |-> s1, line |-> 76, ret |-> ConversionFailure(fl.exc)]
               ELSE IF ~iv.ok THEN [s |-> s2, line |-> 77, ret |-> ConversionFailure(iv.exc)]
               ELSE IF resp.user_code = NoKey THEN [s |-> s3, line |-> 78, ret |-> missing]
               ELSE IF resp.verification_uri = NoKey THEN [s |-> s4, line |-> 79, ret |-> missing]
               ELSE [s |-> [s6 EXCEPT !.request_in_progress = TRUE], line |-> 90,
                     ret |-> Returned(MR, "ok", NoToken)]

\* What is remembered of the session in progress, in the runs of SpecSession
\* (elsewhere sess is Unrecorded throughout): the device_code of the response
\* that the last make_request populated the session from (NoKey when that
\* call failed, or none was made), the device_code and the interval of the
\* session that the client held when that call was made (NoKey and 0 when no
\* request was in progress), and the device_code carried by the last poll
\* request sent since (NoKey when none was).
Unrecorded ==
    [new_code |-> NoKey, prev_code |-> NoKey, prev_interval |-> -1, sent_code |-> NoKey]

NoSession ==
    [new_code |-> NoKey, prev_code |-> NoKey, prev_interval |-> 0, sent_code |-> NoKey]

\* The record after a make_request that found the session s, was answered
\* resp and had the effect e.
Started(before, s, resp, e) ==
    IF before = Unrecorded THEN Unrecorded
    ELSE IF e.line # 90 THEN NoSession
    ELSE [new_code |-> resp.device_code,
          prev_code |-> IF s.request_in_progress THEN s.device_code ELSE NoKey,
          prev_interval |-> IF s.request_in_progress THEN s.interval ELSE 0,
          sent_code |-> NoKey]

SetSession(s) ==
    /\ device_code' = s.device_code
    /\ expires_at' = s.expires_at
    /\ interval' = s.interval
    /\ user_code' = s.user_code
    /\ verification_uri' = s.verification_uri
    /\ verification_uri_complete' = s.verification_uri_complete
    /\ request_in_progress' = s.request_in_progress

LoopVarsUnchanged == UNCHANGED <<loop_start_interval, loop_resps, sleeps>>

\* The histories describe the most recent call; a new call forgets the others'.
ForgetLoop == loop_start_interval' = 0 /\ loop_resps' = <<>> /\ sleeps' = <<>>

make_request(resp) ==
    /\ pc = "idle"
    /\ LET e == MakeRequestEffect(Session, resp, clock)
       IN  /\ SetSession(e.s)
           /\ ret' = e.ret
           /\ mr_resp' = resp
           /\ mr_time' = clock
           /\ ever_succeeded' = (ever_succeeded \/ e.line = 90)
           \* line 77 has run exactly when the call got past it
           /\ IF e.line > 77
              THEN interval0' = e.s.interval /\ n_slow' = 0
              ELSE UNCHANGED <<interval0, n_slow>>
           /\ sess' = Started(sess, Session, resp, e)
    /\ sent' = 0
    /\ last_resp' = NoResponse
    /\ ForgetLoop
    /\ UNCHANGED <<clock, pc>>
    /\ UNCHANGED <<pvars, tvars, wvars>>

----------------------------------------------------------------------------
(* DeviceClient.poll_for_token *)

NonStr == "<not a string>"      \* a JSON value that is not a string (a number, null)

PollHttp(code, error, access_token, token_type) ==
    [kind |-> "http", status |-> code, error |-> error,
     access_token |-> access_token, token_type |-> token_type]

PollErrors ==
    {NoKey, "authorization_pending", "slow_down", "access_denied", "expired_token",
     "invalid_grant"}

\* The server's answers to a poll.
PollResponses ==
    {[kind |-> k, status |-> 0, error |-> NoKey, access_token |-> NoKey, token_type |-> NoKey] :
        k \in {"conn_error", "non_json"}}
    \cup {PollHttp(400, e, NoKey, NoKey) : e \in PollErrors}
    \cup {PollHttp(200, NoKey, a, t) : a \in {"tokA", ""}, t \in {"placement", "Placement"}}
    \cup {PollHttp(200, NoKey, a, "placement") : a \in {NoKey, NonStr}}
    \cup {PollHttp(200, NoKey, "tokA", t) : t \in {NoKey, "bearer", NonStr}}
    \cup {PollHttp(500, "server_error", NoKey, NoKey)}


\* The answers that tell the client to keep polling.
KeepPolling ==
    {PollHttp(400, e, NoKey, NoKey) : e \in {"authorization_pending", "slow_down"}}

\* The answers to a poll drawn in the runs of SpecSession.
SessionPolls ==
    {r \in PollResponses : /\ r.access_token \in {NoKey, "tokA"}
                           /\ r.token_type \in {NoKey, "placement"}
                           /\ r.access_token = NoKey \/ r.token_type = "placement"}

\* str.lower() on the token types drawn above.
Lower(t) == IF t = "Placement" THEN "placement" ELSE t

\* str.encode(): the bytes of a string.
Encode(a) == IF a = "tokA" THEN "b'tokA'" ELSE "b''"

PT == "poll_for_token"

\* Line 118: self.interval += 5.
SlowDown_Assigns(s) == [s EXCEPT !.interval = INTERVAL_STEP]

SlowDown(s) == [s EXCEPT !.interval = @ + INTERVAL_STEP]

\* Lines 110-128: an HTTP 400 answer.
Poll400_DeniedAsTimedOut(s, resp) ==
    CASE resp.error = NoKey ->
           [s |-> s, ret |-> Unexpected(PT, "Unknown failure from server")]
      [] resp.error = "authorization_pending" ->
           [s |-> s, ret |-> Returned(PT, "none", NoToken)]
      [] resp.error = "slow_down" ->
           [s |-> SlowDown(s), ret |-> Returned(PT, "none", NoToken)]
      [] resp.error \in {"access_denied", "expired_token"} ->
           [s |-> s, ret |-> Raised(PT, "DeviceClientTimedOut", "Server responds device code expired")]
      [] OTHER ->
           [s |-> s, ret |-> Unexpected(PT, "Server responds with unexpected failure")]

Poll400_UnknownIsPending(s, resp) ==
    CASE resp.error = NoKey ->
           [s |-> s, ret |-> Unexpected(PT, "Unknown failure from server")]
      [] resp.error = "slow_down" ->
           [s |-> SlowDown(s), ret |-> Returned(PT, "none", NoToken)]
      [] resp.error = "access_denied" ->
           [s |-> s, ret |-> Raised(PT, "DeviceClientAccessDenied", "")]
      [] resp.error = "expired_token" ->
           [s |-> s, ret |-> Raised(PT, "DeviceClientTimedOut", "Server responds device code expired")]
      [] OTHER ->
           [s |-> s, ret |-> Returned(PT, "none", NoToken)]

Poll400(s, resp) ==
    CASE resp.error = NoKey ->
           [s |-> s, ret |-> Unexpected(PT, "Unknown failure from server")]
      [] resp.error = "authorization_pending" ->
           [s |-> s, ret |-> Returned(PT, "none", NoToken)]
      [] resp.error = "slow_down" ->
           [s |-> SlowDown(s), ret |-> Returned(PT, "none", NoToken)]
      [] resp.error = "access_denied" ->
           [s |-> s, ret |-> Raised(PT, "DeviceClientAccessDenied", "")]
      [] resp.error = "expired_token" ->
           [s |-> s, ret |-> Raised(PT, "DeviceClientTimedOut", "Server responds device code expired")]
      [] OTHER ->
           [s |-> s, ret |-> Unexpected(PT, "Server responds with unexpected failure")]

\* Lines 130-147: an HTTP 200 answer.
Poll200_EndsSession(s, resp) ==
    IF resp.access_token = NoKey \/ resp.token_type = NoKey
    THEN [s |-> s, ret |-> Unexpected(PT, "Response missing")]
    ELSE IF resp.token_type = NonStr
    THEN [s |-> s, ret |-> Raised(PT, "AttributeError", "")]
    ELSE IF Lower(resp.token_type) # "placement"
    THEN [s |-> s, ret |-> Unexpected(PT, "Unexpected token type")]
    ELSE IF resp.access_token = NonStr
    THEN [s |-> s, ret |-> Unexpected(PT, "Failed to encode access token")]
    ELSE [s |-> [s EXCEPT !.request_in_progress = FALSE],
          ret |-> Returned(PT, "token", Encode(resp.access_token))]

Poll200(s, resp) ==
    IF resp.access_token = NoKey \/ resp.token_type = NoKey
    THEN [s |-> s, ret |-> Unexpected(PT, "Response missing")]
    ELSE IF resp.token_type = NonStr
    THEN [s |-> s, ret |-> Raised(PT, "AttributeError", "")]      \* .lower(), not caught
    ELSE IF Lower(resp.token_type) # "placement"
    THEN [s |-> s, ret |-> Unexpected(PT, "Unexpected token type")]
    ELSE IF resp.access_token = NonStr
    THEN [s |-> s, ret |-> Unexpected(PT, "Failed to encode access token")]
    ELSE [s |-> s, ret |-> Returned(PT, "token", Encode(resp.access_token))]

\* Lines 93 and 150: the precondition of both poll operations.
NotInProgress_ByDeviceCode(s) == s.device_code = ""

NotInProgress(s) == ~s.request_in_progress

\* Lines 92-147: the session after the call, its result, and the number of
\* requests it sent.  Any status other than 400 and 200 falls off the end of
\* the function, which returns None.
PollForToken_PendingOnLostConnection(s, resp) ==
    IF NotInProgress(s)
    THEN [s |-> s, sent |-> 0, ret |-> Raised(PT, "DeviceClientRequestNotInProgress", "")]
    ELSE LET e == CASE resp.kind = "non_json" ->
                        [s |-> s, ret |-> Unexpected(PT, "Invalid JSON")]
                     [] resp.kind = "conn_error" ->
                        [s |-> s, ret |-> Returned(PT, "none", NoToken)]
                     [] resp.status = 400 -> Poll400(s, resp)
                     [] resp.status = 200 -> Poll200(s, resp)
                     [] OTHER -> [s |-> s, ret |-> Returned(PT, "none", NoToken)]
         IN  [s |-> e.s, sent |-> 1, ret |-> e.ret]

PollForToken(s, resp) ==
    IF NotInProgress(s)
    THEN [s |-> s, sent |-> 0, ret |-> Raised(PT, "DeviceClientRequestNotInProgress", "")]
    ELSE LET e == CASE resp.kind = "non_json" ->
                        [s |-> s, ret |-> Unexpected(PT, "Invalid JSON")]
                     [] resp.kind = "conn_error" ->
                        [s |-> s, ret |-> Raised(PT, "DeviceClientError", "Lost connection to server")]
                     [] resp.status = 400 -> Poll400(s, resp)
                     [] resp.status = 200 -> Poll200(s, resp)
                     [] OTHER -> [s |-> s, ret |-> Returned(PT, "none", NoToken)]
         IN  [s |-> e.s, sent |-> 1, ret |-> e.ret]

\* Line 101: the device_code in the data of the request.
RequestData_UserCode(s) == s.user_code

RequestData(s) == s.device_code

\* The record of the session after a poll made on the session s with the
\* effect e.
Carried(before, s, e) ==
    IF before = Unrecorded \/ e.sent = 0 THEN before
    ELSE [before EXCEPT !.sent_code = RequestData(s)]

\* The model stops the server from answering slow_down more than MaxSlowDowns
\* times after one assignment of interval by make_request.
Admissible(resp) == resp.error = "slow_down" => n_slow < MaxSlowDowns

CountSlowDown(resp, e) ==
    n_slow' = IF e.sent = 1 /\ resp.error = "slow_down" THEN n_slow + 1 ELSE n_slow

poll_for_token(resp) ==
    /\ pc = "idle"
    /\ Admissible(resp)
    /\ LET e == PollForToken(Session, resp)
       IN  /\ SetSession(e.s)
           /\ ret' = e.ret
           /\ sent' = e.sent
           /\ last_resp' = IF e.sent = 1 THEN resp ELSE NoResponse
           /\ CountSlowDown(resp, e)
           /\ sess' = Carried(sess, Session, e)
    /\ ForgetMakeRequest /\ ForgetLoop
    /\ UNCHANGED <<clock, pc, ever_succeeded, interval0>>
    /\ UNCHANGED <<pvars, tvars, wvars>>

----------------------------------------------------------------------------
(* DeviceClient.poll_for_token_loop *)

PL == "poll_for_token_loop"

HistoryUnchanged == UNCHANGED <<mr_resp, mr_time, ever_succeeded, interval0>>

SessionHistoryUnchanged == UNCHANGED <<ever_succeeded, interval0>>

SessionUnchanged ==
    UNCHANGED <<device_code, expires_at, interval, user_code, verification_uri,
                verification_uri_complete, request_in_progress>>

\* Lines 149-151: the entry check.
poll_for_token_loop ==
    /\ pc = "idle"
    /\ IF NotInProgress(Session)
       THEN /\ ret' = Raised(PL, "DeviceClientRequestNotInProgress", "")
            /\ pc' = "idle"
       ELSE /\ ret' = Running(PL)
            /\ pc' = "loop_test"
    /\ sent' = 0
    /\ loop_start_interval' = interval
    /\ loop_resps' = <<>>
    /\ sleeps' = <<>>
    /\ last_resp' = NoResponse
    /\ ForgetMakeRequest
    /\ SessionUnchanged /\ SessionHistoryUnchanged
    /\ UNCHANGED <<clock, n_slow, sess>>
    /\ UNCHANGED <<pvars, tvars, wvars>>

\* Line 153: the loop condition.
LoopCondition_Inclusive(now, s) == now <= s.expires_at

LoopCondition(now, s) == now < s.expires_at

\* Lines 153 and 160.
LoopTest ==
    /\ pc = "loop_test"
    /\ IF LoopCondition(clock, Session)
       THEN pc' = "loop_poll" /\ ret' = ret
       ELSE pc' = "idle" /\ ret' = Raised(PL, "DeviceClientTimedOut", "Device code expired")
    /\ SessionUnchanged /\ HistoryUnchanged /\ LoopVarsUnchanged
    /\ UNCHANGED <<clock, sent, n_slow, last_resp, sess>>
    /\ UNCHANGED <<pvars, tvars, wvars>>

\* Lines 154-158: one poll; a failure of the poll leaves the loop as it is,
\* a token is returned, None leads to the sleep.
LoopPoll(resp) ==
    /\ pc = "loop_poll"
    /\ Admissible(resp)
    /\ LET e == PollForToken(Session, resp)
       IN  /\ SetSession(e.s)
           /\ sent' = sent + e.sent
           /\ last_resp' = resp
           /\ CountSlowDown(resp, e)
           /\ sess' = Carried(sess, Session, e)
           /\ IF e.ret.kind = "none"
              THEN /\ pc' = "loop_sleep"
                   /\ ret' = ret
                   /\ loop_resps' = Append(loop_resps, resp.error)
              ELSE /\ pc' = "idle"
                   /\ ret' = [e.ret EXCEPT !.op = PL]
                   /\ loop_resps' = loop_resps
    /\ HistoryUnchanged
    /\ UNCHANGED <<clock, loop_start_interval, sleeps>>
    /\ UNCHANGED <<pvars, tvars, wvars>>

\* The runs end when the clock passes the bound of their specification.
InTime(t) == t <= (IF sess = Unrecorded THEN MaxTime ELSE MaxTimeSession)

\* Line 156: the length of the sleep.
SleepDuration_AtLoopEntry(s) == loop_start_interval

SleepDuration(s) == s.interval

\* time.sleep(d) raises ValueError for a negative d, and sleeps d seconds for
\* any other.
NegativeSleep(d) == d < 0

SleepFailure(op) == Raised(op, "ValueError", "sleep length must be non-negative")

LoopSleep ==
    /\ pc = "loop_sleep"
    /\ IF NegativeSleep(SleepDuration(Session))
       THEN /\ pc' = "idle"
            /\ ret' = SleepFailure(PL)
            /\ UNCHANGED <<clock, sleeps>>
       ELSE /\ InTime(clock + SleepDuration(Session))
            /\ clock' = clock + SleepDuration(Session)
            /\ sleeps' = Append(sleeps, SleepDuration(Session))
            /\ pc' = "loop_test"
            /\ ret' = ret
    /\ SessionUnchanged /\ HistoryUnchanged
    /\ UNCHANGED <<sent, n_slow, last_resp, loop_start_interval, loop_resps, sess>>
    /\ UNCHANGED <<pvars, tvars, wvars>>

\* Time passing between two calls, and while a request of the loop is on its
\* way; the clock is read in steps of the default interval.
TickDevice ==
    /\ pc \in {"idle", "loop_poll"}
    /\ InTime(clock + DEFAULT_INTERVAL)
    /\ clock' = clock + DEFAULT_INTERVAL
    /\ UNCHANGED <<device_code, expires_at, interval, user_code, verification_uri,
                   verification_uri_complete, request_in_progress, pc, ret, sent,
                   mr_resp, mr_time, ever_succeeded, interval0, n_slow, last_resp,
                   loop_start_interval, loop_resps, sleeps, sess>>
    /\ UNCHANGED <<pvars, tvars, wvars>>

----------------------------------------------------------------------------
(* DeviceClient.__init__ (lines 38-47) *)

InitClient(recorded) ==
    /\ device_code = ""
    /\ expires_at = 0
    /\ interval = 0
    /\ user_code = ""
    /\ verification_uri = ""
    /\ verification_uri_complete = ""
    /\ request_in_progress = FALSE
    /\ pc = "idle"
    /\ ret = Returned("__init__", "ok", NoToken)
    /\ sent = 0
    /\ mr_resp = MRFailure("none")
    /\ mr_time = 0
    /\ ever_succeeded = FALSE
    /\ interval0 = 0
    /\ n_slow = 0
    /\ last_resp = NoResponse
    /\ loop_start_interval = 0
    /\ loop_resps = <<>>
    /\ sleeps = <<>>
    /\ sess = (IF recorded THEN NoSession ELSE Unrecorded)

InitDeviceClient == InitClient(FALSE)

----------------------------------------------------------------------------
(* Placement: constants of the class (condor.py 194-203) *)

MIN_DELAY_BETWEEN_UPDATES == 10
MAX_STATUS_WAIT == 60
HOLD_REASON_CODE_SPOOLING_INPUT == 16

IN_PROGRESS_STATUSES == {"idle", "running", "transferring_input", "transferring_output"}

\* The keys of self._status in the order of lines 212-221; enumerate(...,
\* start=1) of line 250 pairs the k-th name with the code k.
StatusNames ==
    <<"idle", "running", "removed", "completed", "held", "transferring_output",
      "suspended", "transferring_input">>

NameSet == {StatusNames[i] : i \in DOMAIN StatusNames}

CodeOf == [name \in NameSet |-> CHOOSE i \in DOMAIN StatusNames : StatusNames[i] = name]

----------------------------------------------------------------------------
(* The remote scheduler's answers to a query *)

\* A job record: JobStatus, and HoldReasonCode as the set holding it (empty
\* when the record has none, so that job.get("HoldReasonCode") is None).
Job(js, hrc) == [JobStatus |-> js, HoldReasonCode |-> hrc]

\* The record lists the scheduler answers with in the placement's runs: one
\* completed job; two held jobs, one of them spooling its input; two idle jobs
\* (one still carrying the hold reason of its spooling) and a running one;
\* a removed, a transferring, a suspended and a held job; and a running job
\* next to a record whose JobStatus is none of the codes 1..7.
JobLists ==
    {<<Job(4, {})>>,
     <<Job(5, {HOLD_REASON_CODE_SPOOLING_INPUT}), Job(5, {})>>,
     <<Job(1, {}), Job(1, {HOLD_REASON_CODE_SPOOLING_INPUT}), Job(2, {})>>,
     <<Job(3, {}), Job(6, {}), Job(7, {}), Job(5, {1})>>,
     <<Job(8, {}), Job(2, {})>>}

\* An answer: the query raises HTCondorException (ok = FALSE) or returns jobs;
\* it takes dur seconds, and lag seconds pass between the clock reads of lines
\* 266 and 267.
QueryOutcomes ==
    [ok : {TRUE}, jobs : JobLists, dur : {0, 5}, lag : {0, 5}]
    \cup [ok : {FALSE}, jobs : {<<>>}, dur : {0, 5}, lag : {0}]

NoQuery == [ok |-> FALSE, jobs |-> <<>>, dur |-> 0, lag |-> 0]

----------------------------------------------------------------------------
(* Placement._update_status *)

Placement ==
    [status_last_update |-> status_last_update,
     status_next_update |-> status_next_update,
     status |-> status]

\* Lines 253-265: whether a job counts under a name.
Counts_ByCodeAlone(name, job) ==
    IF name = "transferring_input"
    THEN /\ job.JobStatus = 5
         /\ job.HoldReasonCode = {HOLD_REASON_CODE_SPOOLING_INPUT}
    ELSE job.JobStatus = CodeOf[name]

Counts(name, job) ==
    IF name = "transferring_input"
    THEN /\ job.JobStatus = 5
         /\ job.HoldReasonCode = {HOLD_REASON_CODE_SPOOLING_INPUT}
    ELSE /\ job.JobStatus = CodeOf[name]
         /\ ~(name = "held" /\ job.HoldReasonCode = {HOLD_REASON_CODE_SPOOLING_INPUT})

\* Lines 250-265: every count set to 0 and recounted from the query.
Recount_Flags(jobs) ==
    [name \in NameSet |-> IF \E i \in DOMAIN jobs : Counts(name, jobs[i]) THEN 1 ELSE 0]

Recount(jobs) ==
    [name \in NameSet |-> Cardinality({i \in DOMAIN jobs : Counts(name, jobs[i])})]

\* Line 241: the rate limit.
TooSoon_Never(force, now, p) == FALSE

TooSoon_IgnoresForce(force, now, p) == now < p.status_next_update

TooSoon_SinceLastUpdate(force, now, p) == ~force /\ now < p.status_last_update

TooSoon(force, now, p) == ~force /\ now < p.status_next_update

\* Lines 266-267: the time stamps of a successful update.
Stamp_AtCallTime(p, now, q) ==
    [p EXCEPT !.status_last_update = now,
              !.status_next_update = now + MIN_DELAY_BETWEEN_UPDATES]

Stamp(p, now, q) ==
    [p EXCEPT !.status_last_update = now + q.dur,
              !.status_next_update = now + q.dur + q.lag + MIN_DELAY_BETWEEN_UPDATES]

\* Lines 230-268, called at time now with the scheduler answering q: the
\* placement after the call, what it returned, whether it queried, the
\* records the query returned, and the time when it returned.
UpdateStatus_StampsOnFailure(p, now, force, q) ==
    IF TooSoon(force, now, p)
    THEN [p |-> p, ret |-> FALSE, queried |-> FALSE, jobs |-> <<>>, now |-> now]
    ELSE IF ~q.ok
    THEN [p |-> Stamp(p, now, q), ret |-> FALSE, queried |-> TRUE, jobs |-> <<>>,
          now |-> now + q.dur]
    ELSE [p |-> Stamp([p EXCEPT !.status = Recount(q.jobs)], now, q),
          ret |-> TRUE, queried |-> TRUE, jobs |-> q.jobs, now |-> now + q.dur + q.lag]

UpdateStatus(p, now, force, q) ==
    IF TooSoon(force, now, p)
    THEN [p |-> p, ret |-> FALSE, queried |-> FALSE, jobs |-> <<>>, now |-> now]
    ELSE IF ~q.ok
    THEN [p |-> p, ret |-> FALSE, queried |-> TRUE, jobs |-> <<>>, now |-> now + q.dur]
    ELSE [p |-> Stamp([p EXCEPT !.status = Recount(q.jobs)], now, q),
          ret |-> TRUE, queried |-> TRUE, jobs |-> q.jobs, now |-> now + q.dur + q.lag]

\* The answers to draw for a call: one placeholder when the call will not query.
Answers(p, now, force) ==
    IF TooSoon(force, now, p) THEN {NoQuery} ELSE QueryOutcomes

\* What is remembered of a call of _update_status: when it started (while
\* that is less than MIN_DELAY_BETWEEN_UPDATES ago, 0 afterwards), its
\* argument, whether it queried and updated, the records its query returned
\* (none unless it updated), and how the call before it went
\* when that one was not forced and started less than MIN_DELAY_BETWEEN_UPDATES
\* earlier ("skipped", "failed", "updated"; "none" otherwise).
\* SpecMonitor keeps no such record: there upd is NotRecorded throughout.
NotRecorded == [t |-> -1, force |-> FALSE, queried |-> FALSE, ok |-> FALSE, jobs |-> <<>>,
                near |-> "none"]

NoCall == [t |-> 0, force |-> FALSE, queried |-> FALSE, ok |-> FALSE, jobs |-> <<>>,
           near |-> "none"]

Recent(t, now) == t > 0 /\ now - t < MIN_DELAY_BETWEEN_UPDATES

HowItWent(u) == IF u.ok THEN "updated" ELSE IF u.queried THEN "failed" ELSE "skipped"

CallRecord(now, force, e, before) ==
    IF before = NotRecorded THEN NotRecorded
    ELSE [t |-> IF Recent(now, e.now) THEN now ELSE 0,
          force |-> force, queried |-> e.queried, ok |-> e.ret, jobs |-> e.jobs,
          near |-> IF Recent(before.t, now) /\ ~before.force
                   THEN HowItWent(before) ELSE "none"]

\* The record of the last call once the clock reads now.
Aged(u, now) == IF u = NotRecorded \/ Recent(u.t, now) THEN u ELSE [u EXCEPT !.t = 0]

SetPlacement(p) ==
    /\ status_last_update' = p.status_last_update
    /\ status_next_update' = p.status_next_update
    /\ status' = p.status

----------------------------------------------------------------------------
(* Placement.__init__, _update_status called directly, status, show_status *)

EmptyStatus == [name \in NameSet |-> 0]

NoMonitor == [kind |-> "none", queries |-> 0, reports |-> 0, slept |-> FALSE,
              updated |-> FALSE, past_end |-> FALSE]

NoEndTime == [inf |-> TRUE, t |-> 0]

\* Lines 205-223: the fields are set and _update_status() is called once.
InitPlacement(recorded) ==
    /\ \E q \in QueryOutcomes :
         LET p0 == [status_last_update |-> 0, status_next_update |-> 0,
                    status |-> EmptyStatus]
             e == UpdateStatus(p0, StartTime, FALSE, q)
         IN  /\ clock = e.now
             /\ status_last_update = e.p.status_last_update
             /\ status_next_update = e.p.status_next_update
             /\ status = e.p.status
             /\ upd = CallRecord(StartTime, FALSE, e, IF recorded THEN NoCall ELSE NotRecorded)
    /\ mpc = "idle"
    /\ end_time = NoEndTime
    /\ mret = NoMonitor

\* The runs end when the clock passes the bound of their specification.
Within(t) == t <= (IF upd = NotRecorded THEN MaxTimeMonitor ELSE MaxTime)

MonitorUnchanged == UNCHANGED <<mpc, end_time, mret>>

\* self._update_status(force), and the property status (lines 225-228),
\* which is self._update_status() followed by a copy of the counts.
update(force) ==
    /\ mpc = "idle"
    /\ \E q \in Answers(Placement, clock, force) :
         LET e == UpdateStatus(Placement, clock, force, q)
         IN  /\ Within(e.now)
             /\ SetPlacement(e.p)
             /\ clock' = e.now
             /\ upd' = CallRecord(clock, force, e, upd)
    /\ MonitorUnchanged
    /\ UNCHANGED <<dvars, tvars, wvars>>

\* Lines 270-288: show_status at time now: _update_status(), then the print.
ShowStatus(p, now, q) ==
    LET e == UpdateStatus(p, now, FALSE, q)
    IN  [p |-> e.p, now |-> e.now, queried |-> e.queried, ret |-> e.ret, jobs |-> e.jobs,
         printed |-> IF e.p.status_last_update = 0 THEN "Status unknown" ELSE "As of"]

show_status ==
    /\ mpc = "idle"
    /\ \E q \in Answers(Placement, clock, FALSE) :
         LET e == ShowStatus(Placement, clock, q)
         IN  /\ Within(e.now)
             /\ SetPlacement(e.p)
             /\ clock' = e.now
             /\ upd' = CallRecord(clock, FALSE, e, upd)
    /\ MonitorUnchanged
    /\ UNCHANGED <<dvars, tvars, wvars>>

\* Time passing between two calls on the placement.
TickPlacement ==
    /\ mpc = "idle"
    /\ Within(clock + 5)
    /\ clock' = clock + 5
    /\ upd' = Aged(upd, clock + 5)
    /\ UNCHANGED <<status_last_update, status_next_update, status, mpc, end_time, mret>>
    /\ UNCHANGED <<dvars, tvars, wvars>>

----------------------------------------------------------------------------
(* Placement.monitor_jobs *)

\* Lines 349-357.
JobsInProgress_AllJobs(p) ==
    p.status["idle"] + p.status["running"] + p.status["removed"] + p.status["completed"]
    + p.status["held"] + p.status["transferring_output"] + p.status["suspended"]
    + p.status["transferring_input"]

JobsInProgress(p) ==
    LET n == [name \in NameSet |-> IF name \in IN_PROGRESS_STATUSES THEN p.status[name] ELSE 0]
    IN  n["idle"] + n["running"] + n["transferring_input"] + n["transferring_output"]

\* The budgets monitor_jobs is called with, in half minutes: a negative one,
\* none, half a minute, a minute; and math.inf, the default.
Budgets == {[inf |-> FALSE, halves |-> h] : h \in {-1, 0, 1, 2}} \cup {[inf |-> TRUE, halves |-> 0]}

\* Line 324: end_time = time.time() + minutes * 60.0.
EndTime(now, budget) ==
    IF budget.inf THEN [inf |-> TRUE, t |-> 0] ELSE [inf |-> FALSE, t |-> now + budget.halves * 30]

\* Line 344: self.status_next_update > end_time.
PastEnd(p, et) == ~et.inf /\ p.status_next_update > et.t

ZeroBudgets == {b \in Budgets : ~b.inf /\ b.halves <= 0}

Outcome(kind) ==
    [kind |-> kind, queries |-> 0, reports |-> 0, slept |-> FALSE,
     updated |-> FALSE, past_end |-> FALSE]

\* The return of a pass of the loop: the message printed, whether the
\* _update_status of line 331 had returned True, and whether the test of
\* line 344 held of the placement p when the pass returned.
PassOutcome(kind, update_success, p) ==
    [Outcome(kind) EXCEPT !.updated = update_success, !.past_end = PastEnd(p, end_time)]

\* Lines 313-324: the entry of monitor_jobs.  With a budget of zero it is the
\* whole call: a forced update, then show_status.
monitor_jobs(budget) ==
    /\ mpc = "idle"
    /\ IF ~budget.inf /\ budget.halves < 0
       THEN /\ mret' = Outcome("ValueError")
            /\ UNCHANGED <<clock, status_last_update, status_next_update, status,
                           mpc, end_time, upd>>
       ELSE IF ~budget.inf /\ budget.halves = 0
       THEN \E q1 \in Answers(Placement, clock, TRUE) :
              LET e1 == UpdateStatus(Placement, clock, TRUE, q1)
                  c1 == CallRecord(clock, TRUE, e1, upd)
              IN  \E q2 \in Answers(e1.p, e1.now, FALSE) :
                    LET e2 == ShowStatus(e1.p, e1.now, q2)
                    IN  /\ Within(e2.now)
                        /\ SetPlacement(e2.p)
                        /\ clock' = e2.now
                        /\ upd' = CallRecord(e1.now, FALSE, e2, c1)
                        /\ mret' = [kind |-> "checked",
                                    queries |-> (IF e1.queried THEN 1 ELSE 0)
                                                + (IF e2.queried THEN 1 ELSE 0),
                                    reports |-> 1, slept |-> FALSE, updated |-> e1.ret,
                                    past_end |-> FALSE]
                        /\ UNCHANGED <<mpc, end_time>>
       ELSE /\ end_time' = EndTime(clock, budget)
            /\ mpc' = "m_update"
            /\ mret' = Outcome("running")
            /\ UNCHANGED <<clock, status_last_update, status_next_update, status, upd>>
    /\ UNCHANGED <<dvars, tvars, wvars>>

\* Line 333.
TimeSinceLastUpdate(p, now) == p.status_last_update - now

\* Line 334.
Stalled(p, now) == TimeSinceLastUpdate(p, now) > MAX_STATUS_WAIT

\* A return of monitor_jobs: its local end_time is gone.
Return == mpc' = "idle" /\ end_time' = NoEndTime

\* The runs of monitor_jobs that never end cannot stop at a bound.  In them
\* (late = TRUE) a clock value of MaxTimeMonitor stands for that time or any
\* later one: the clock stays there, and the scheduler answers a query with
\* jobs only if the status_next_update it leads to is not later than
\* MaxTimeMonitor, so that every comparison of lines 241, 334 and 344 comes out
\* as it would at the later time.
InRun(late, t) == late \/ Within(t)

Reading(late, t) == IF late /\ t > MaxTimeMonitor THEN MaxTimeMonitor ELSE t

Scheduled(late, answers, now) ==
    IF late
    THEN {q \in answers :
            q.ok => now + q.dur + q.lag + MIN_DELAY_BETWEEN_UPDATES <= MaxTimeMonitor}
    ELSE answers

\* Lines 331-346: one pass of the loop, from the update to the sleep or to
\* one of the three returns.
Pass(late) ==
    /\ mpc = "m_update"
    /\ \E q1 \in Scheduled(late, Answers(Placement, clock, FALSE), clock) :
         LET e1 == UpdateStatus(Placement, clock, FALSE, q1)
             c1 == CallRecord(clock, FALSE, e1, upd)
         IN  IF Stalled(e1.p, e1.now)
             THEN /\ InRun(late, e1.now)
                  /\ SetPlacement(e1.p) /\ clock' = Reading(late, e1.now) /\ upd' = c1
                  /\ mret' = PassOutcome("stalled", e1.ret, e1.p) /\ Return
             ELSE IF e1.ret
             THEN \E q2 \in Scheduled(late, Answers(e1.p, e1.now, FALSE), e1.now) :
                    LET e2 == ShowStatus(e1.p, e1.now, q2)
                    IN  /\ InRun(late, e2.now)
                        /\ SetPlacement(e2.p) /\ clock' = Reading(late, e2.now)
                        /\ upd' = CallRecord(e1.now, FALSE, e2, c1)
                        /\ IF JobsInProgress(e2.p) = 0
                           THEN mret' = PassOutcome("done", TRUE, e2.p) /\ Return
                           ELSE IF PastEnd(e2.p, end_time)
                           THEN mret' = PassOutcome("budget", TRUE, e2.p) /\ Return
                           ELSE mret' = mret /\ mpc' = "m_sleep" /\ end_time' = end_time
             ELSE /\ InRun(late, e1.now)
                  /\ SetPlacement(e1.p) /\ clock' = Reading(late, e1.now) /\ upd' = c1
                  /\ IF PastEnd(e1.p, end_time)
                     THEN mret' = PassOutcome("budget", FALSE, e1.p) /\ Return
                     ELSE mret' = mret /\ mpc' = "m_sleep" /\ end_time' = end_time
    /\ UNCHANGED <<dvars, tvars, wvars>>

MonitorPass == Pass(FALSE)

MonitorPassLate == Pass(TRUE)

\* Line 347.
Sleep(late) ==
    /\ mpc = "m_sleep"
    /\ InRun(late, clock + MIN_DELAY_BETWEEN_UPDATES)
    /\ clock' = Reading(late, clock + MIN_DELAY_BETWEEN_UPDATES)
    /\ mpc' = "m_update"
    /\ upd' = Aged(upd, clock + MIN_DELAY_BETWEEN_UPDATES)
    /\ UNCHANGED <<status_last_update, status_next_update, status, end_time, mret>>
    /\ UNCHANGED <<dvars, tvars, wvars>>

MonitorSleep == Sleep(FALSE)

MonitorSleepLate == Sleep(TRUE)

\* The budgets with which monitor_jobs enters its loop.
LoopBudgets == {b \in Budgets : b.inf \/ b.halves > 0}

----------------------------------------------------------------------------
(* The token file and get_token_state (common.py) *)

\* The bytes between two b'.' of the file: rem is the number of base64
\* characters they hold modulo 4, text is what those characters stand for.
Segment(rem, text) == [rem |-> rem, text |-> text]

\* A decoded text: t says what it is ("empty", "garbage", "not_utf8", or the
\* JSON value it spells: "object", "list", "string", "number", "null"), and
\* exp is the value of the key "exp" of an object (JAbsent when it has none).
Text(t, exp) == [t |-> t, exp |-> exp]

Header == Segment(0, Text("object", JAbsent))

Signature == Segment(3, Text("garbage", JAbsent))

\* The payloads written at time now.
PayloadTexts(now) ==
    {Text("object", v) :
        v \in {JAbsent, JInt(now - 1), JInt(now), JInt(now + 1), JInt(now + 3600),
               JStr(now + 1), JBad, JNull, JBool(TRUE), JHuge, JList}}
    \cup {Text(t, JAbsent) : t \in {"empty", "garbage", "not_utf8", "list", "string",
                                    "number", "null"}}

\* The contents written at time now, as the list of their segments: a header
\* alone; a header and a payload, with or without a signature; and a payload
\* cut after one character too many.
TokenContents(now) ==
    {<<Header>>}
    \cup {<<Header, Segment(r, x)>> : r \in {0, 2}, x \in PayloadTexts(now)}
    \cup {<<Header, Segment(r, x), Signature>> : r \in {0, 3}, x \in PayloadTexts(now)}
    \cup {<<Header, Segment(1, Text("garbage", JAbsent))>>}

NoFile == [kind |-> "missing", segs |-> <<>>]

\* A file whose read_bytes() raises an OSError other than FileNotFoundError.
UnreadableFile == [kind |-> "unreadable", segs |-> <<>>]

FileOf(segs) == [kind |-> "file", segs |-> segs]

NoInspection == [state |-> "none", exc |-> "none"]

TokenState(name) == [state |-> name, exc |-> "none"]

Uncaught(exc) == [state |-> "none", exc |-> exc]

\* Line 76: base64.urlsafe_b64decode(body + b'=='): with the two padding
\* characters added, only a count of characters that is 1 more than a
\* multiple of 4 is refused (binascii.Error, a ValueError).
B64Decode(seg) ==
    IF seg.rem = 1
    THEN [ok |-> FALSE, v |-> seg.text, exc |-> "ValueError"]
    ELSE [ok |-> TRUE, v |-> seg.text, exc |-> "none"]

\* Line 76: json.loads(bytes): JSONDecodeError and UnicodeDecodeError are
\* both ValueErrors.
JsonLoads(text) ==
    IF text.t \in {"empty", "garbage", "not_utf8"}
    THEN [ok |-> FALSE, v |-> text, exc |-> "ValueError"]
    ELSE [ok |-> TRUE, v |-> text, exc |-> "none"]

\* Line 77: body_json["exp"].
Subscript(body) ==
    IF body.t # "object" THEN [ok |-> FALSE, v |-> JAbsent, exc |-> "TypeError"]
    ELSE IF body.exp = JAbsent THEN [ok |-> FALSE, v |-> JAbsent, exc |-> "KeyError"]
    ELSE [ok |-> TRUE, v |-> body.exp, exc |-> "none"]

\* Lines 78-80: except (IndexError, ValueError).
Decoding(exc) ==
    IF exc \in {"IndexError", "ValueError"} THEN TokenState("UNREADABLE") ELSE Uncaught(exc)

\* Line 81: expiration < time.time().
Expired(expiration, now) == expiration < now

\* Lines 59-83.
GetTokenState(file, now) ==
    IF file.kind = "missing" THEN TokenState("MISSING")
    ELSE IF file.kind = "unreadable" THEN TokenState("UNREADABLE")
    ELSE IF Len(file.segs) < 2 THEN Decoding("IndexError")
    ELSE LET raw == B64Decode(file.segs[2])
             body_json == JsonLoads(raw.v)
             exp == Subscript(body_json.v)
             expiration == PyFloat(exp.v)
         IN  IF ~raw.ok THEN Decoding(raw.exc)
             ELSE IF ~body_json.ok THEN Decoding(body_json.exc)
             ELSE IF ~exp.ok THEN Decoding(exp.exc)
             ELSE IF ~expiration.ok THEN Decoding(expiration.exc)
             ELSE IF Expired(expiration.v, now) THEN TokenState("EXPIRED")
             ELSE TokenState("OK")

get_token_state ==
    /\ token_ret' = GetTokenState(token_file, clock)
    /\ UNCHANGED <<clock, token_file>>
    /\ UNCHANGED <<dvars, pvars, wvars>>

\* Lines 28-43: the bytes given are written to the token file.
write_token ==
    /\ \E token_contents \in TokenContents(clock) : token_file' = FileOf(token_contents)
    /\ token_ret' = NoInspection
    /\ UNCHANGED clock
    /\ UNCHANGED <<dvars, pvars, wvars>>

\* The file is removed, or made unreadable, from outside the program.
TokenFileLost ==
    /\ token_file.kind = "file"
    /\ token_file' \in {NoFile, UnreadableFile}
    /\ token_ret' = NoInspection
    /\ UNCHANGED clock
    /\ UNCHANGED <<dvars, pvars, wvars>>

TickToken ==
    /\ clock < MaxTimeToken
    /\ clock' = clock + 1
    /\ token_ret' = NoInspection
    /\ UNCHANGED token_file
    /\ UNCHANGED <<dvars, pvars, wvars>>

InitTokenFile == token_file = NoFile /\ token_ret = NoInspection

----------------------------------------------------------------------------
(* Several clients and placements *)

\* The two instances of each class.
Instances == {1, 2}

\* The value of inst where only one client and one placement exist.
NoInstances == <<>>

\* condor.py 212: the dict that the _status of the i-th placement refers to;
\* each constructor call makes a dict of its own.
StatusRef_OneForAll(i) == 1

StatusRef(i) == i

\* device.py 41-47, condor.py 210-221: the fields after the constructors.
NewClient ==
    [device_code |-> "", expires_at |-> 0, interval |-> 0, user_code |-> "",
     verification_uri |-> "", verification_uri_complete |-> "",
     request_in_progress |-> FALSE]

NewPlacement(i) == [status_last_update |-> 0, status_next_update |-> 0, _status |-> StatusRef(i)]

\* The placement i of the instances in, with the dict its _status refers to.
PlacementOf(in, i) ==
    [status_last_update |-> in.p[i].status_last_update,
     status_next_update |-> in.p[i].status_next_update,
     status |-> in.dicts[in.p[i]._status]]

\* The instances after a call on the placement i that left it as q: the
\* stamps are stored in the instance, the counts in the dict it refers to.
WithPlacement(in, i, q) ==
    [in EXCEPT !.p[i].status_last_update = q.status_last_update,
               !.p[i].status_next_update = q.status_next_update,
               !.dicts[in.p[i]._status] = q.status]

WithClient(in, i, s) == [in EXCEPT !.c[i] = s]

\* The most recent call: the method, and the instance it was called on.
Called(in, method, i) == [in EXCEPT !.call = method, !.actor = i]

ClientMethods == {MR, PT}

PlacementMethods == {"_update_status", "monitor_jobs"}

\* The answers drawn in the runs of SpecInstances.
InstanceResponses ==
    {r \in SessionResponses : /\ r.kind = "json"
                              /\ r.device_code = "dcA"
                              /\ r.interval = JAbsent
                              /\ r.expires_in = JInt(10)}

InstancePolls ==
    {PollHttp(400, "slow_down", NoKey, NoKey), PollHttp(200, NoKey, "tokA", "placement")}

InstanceQueries ==
    {q \in QueryOutcomes : /\ q.dur = 0 /\ q.lag = 0
                           /\ q.ok => Len(q.jobs) \in {1, 3}}

\* The runs end when the clock passes MaxTimeInstances.
Early(t) == t <= MaxTimeInstances

InstanceFrame == UNCHANGED <<dvars, pvars, tvars, wid>>

\* device.py 49-90 on the client i.
InstanceMakeRequest(i, resp) ==
    /\ inst # NoInstances
    /\ inst' = Called(WithClient(inst, i, MakeRequestEffect(inst.c[i], resp, clock).s), MR, i)
    /\ UNCHANGED clock
    /\ InstanceFrame

\* device.py 92-147 on the client i.
InstancePoll(i, resp) ==
    /\ inst # NoInstances
    /\ resp.error = "slow_down" =>
          inst.c[i].interval < DEFAULT_INTERVAL + MaxSlowDowns * INTERVAL_STEP
    /\ inst' = Called(WithClient(inst, i, PollForToken(inst.c[i], resp).s), PT, i)
    /\ UNCHANGED clock
    /\ InstanceFrame

\* condor.py 230-268 on the placement i.
InstanceUpdate(i, force, q) ==
    /\ inst # NoInstances
    /\ LET e == UpdateStatus(PlacementOf(inst, i), clock, force, q)
       IN  /\ inst' = Called(WithPlacement(inst, i, e.p), "_update_status", i)
           /\ clock' = e.now
    /\ InstanceFrame

\* condor.py 290-324 on the placement i, with a budget of zero: a forced
\* update, then show_status.
InstanceMonitor(i) ==
    /\ inst # NoInstances
    /\ \E q1 \in InstanceQueries :
         LET e1 == UpdateStatus(PlacementOf(inst, i), clock, TRUE, q1)
             in1 == WithPlacement(inst, i, e1.p)
         IN  \E q2 \in (IF TooSoon(FALSE, e1.now, e1.p) THEN {NoQuery} ELSE InstanceQueries) :
               LET e2 == ShowStatus(PlacementOf(in1, i), e1.now, q2)
               IN  /\ inst' = Called(WithPlacement(in1, i, e2.p), "monitor_jobs", i)
                   /\ clock' = e2.now
    /\ InstanceFrame

TickInstances ==
    /\ inst # NoInstances
    /\ Early(clock + DEFAULT_INTERVAL)
    /\ clock' = clock + DEFAULT_INTERVAL
    /\ UNCHANGED inst
    /\ InstanceFrame

\* Two clients and two placements after their constructors; each placement's
\* constructor ends with an update (condor.py 223).
TwoOfEach ==
    LET in0 == [c |-> [i \in Instances |-> NewClient],
                p |-> [i \in Instances |-> NewPlacement(i)],
                dicts |-> [d \in Instances |-> EmptyStatus],
                actor |-> 0, call |-> "__init__"]
    IN  {WithPlacement(
             WithPlacement(in0, 1, UpdateStatus(PlacementOf(in0, 1), StartTime, FALSE, q1).p),
             2, UpdateStatus(PlacementOf(in0, 2), StartTime, FALSE, q2).p) :
            q1 \in InstanceQueries, q2 \in InstanceQueries}

----------------------------------------------------------------------------
(* DeviceWidgets.on_request_token_click (demowidgets.py 125-188) *)

\* status_html.value: the text, the message of the failure it reports (""
\* when it reports none, or when str(err) is empty) and, for the text of
\* line 155, the seconds left that it shows.
StatusText(text, msg, left) == [text |-> text, msg |-> msg, left |-> left]

Blank == StatusText("", "", 0)

\* How the handler ended: it returned, or an exception left it.
HandlerReturned == [kind |-> "returned", exc |-> "none"]

HandlerRaised(exc) == [kind |-> "raised", exc |-> exc]

NotClicked == [kind |-> "none", exc |-> "none"]

\* Lines 93-123: the widgets after __init__.  The fields: where the handler
\* is (pc), the three widgets' values, the local access_token_b, and, of the
\* handler's most recent run, the polls it made, the calls of write_token, how
\* its loop ended and how the handler itself ended.
InitWidgets ==
    [pc |-> "idle", status |-> Blank, instructions |-> "",
     description |-> "Request Token", disabled |-> FALSE,
     access_token_b |-> NoToken, polls |-> 0, writes |-> 0, write |-> "none",
     ending |-> "none", out |-> NotClicked]

\* The value of wid where no DeviceWidgets is constructed.
NoWidgets == [InitWidgets EXCEPT !.pc = "none"]

\* The exceptions that "except DeviceClientError" catches (device.py 14-31).
DeviceClientErrors ==
    {"DeviceClientError", "DeviceClientUnexpectedOutput", "DeviceClientTimedOut",
     "DeviceClientRequestNotInProgress", "DeviceClientAccessDenied"}

\* Lines 186-187, the finally block.
Finally_NoOp(w) == w

Finally(w) == [w EXCEPT !.description = "Request Another Token", !.disabled = FALSE]

\* The handler is left: by a return, or by the exception exc.
Leave(w, out) == [w EXCEPT !.pc = "idle", !.out = out]

\* Lines 172-174: the interrupt is reported and raised again.
Cancelled_Swallowed(w) ==
    Leave(Finally([w EXCEPT !.status = StatusText("Request cancelled", "", 0),
                            !.ending = "cancelled"]),
          HandlerReturned)

Cancelled(w) ==
    Leave(Finally([w EXCEPT !.status = StatusText("Request cancelled", "", 0),
                            !.ending = "cancelled"]),
          HandlerRaised("KeyboardInterrupt"))

\* Line 176: the truth value of access_token_b; None and b'' are false.
Truthy(b) == b # NoToken /\ b # Encode("")

\* The bytes of a token as the segments of a file: the tokens the server
\* gives here hold no b'.'.
TokenBytes(b) ==
    IF b = Encode("") THEN <<Segment(0, Text("empty", JAbsent))>>
    ELSE <<Segment(0, Text("garbage", JAbsent))>>

\* common.py 28-43: write_token either writes the bytes ("ok"), or fails with
\* an OSError before the file is opened ("not_opened") or after open() has
\* truncated it ("truncated").
WriteOutcomes == {"ok", "not_opened", "truncated"}

WrittenFile(file, b, how) ==
    CASE how = "ok" -> FileOf(TokenBytes(b))
      [] how = "truncated" -> FileOf(TokenBytes(Encode("")))
      [] OTHER -> file

\* Lines 176-188: what follows the loop, for the outcome how of write_token.
AfterLoop(w, how) ==
    IF ~Truthy(w.access_token_b)
    THEN Leave(Finally(w), HandlerReturned)
    ELSE LET w1 == [w EXCEPT !.status = StatusText("Request successful", "", 0),
                             !.writes = @ + 1, !.write = how]
         IN  IF how # "ok"
             THEN Leave(Finally(w1), HandlerRaised("OSError"))
             ELSE Leave(Finally([w1 EXCEPT
                                    !.status = StatusText("Request successful, token installed", "", 0),
                                    !.instructions = "You can continue with the rest of the notebook."]),
                        HandlerReturned)

\* The answers to the initial request drawn in the runs of SpecWidget: usable
\* bodies (one with a negative interval), a body whose expires_in is null,
\* and two failures before the body is read.
WidgetResponses ==
    {r \in LoopResponses : r.expires_in = JInt(10)}
    \cup {r \in MRResponses : r.expires_in = JNull /\ r.interval = JAbsent}
    \cup {MRFailure("conn_error"), MRFailure("non_json")}

\* The answers to a poll drawn in the runs of SpecWidget.
WidgetPolls ==
    {r \in PollResponses :
        \/ r.kind = "conn_error"
        \/ r.status = 400 /\ r.error \in {"authorization_pending", "slow_down",
                                          "access_denied", "expired_token"}
        \/ r.status = 200 /\ r.access_token \in {"tokA", ""} /\ r.token_type = "placement"
        \/ r.status = 200 /\ r.access_token = "tokA" /\ r.token_type = NonStr}

ClientCallsUnchanged ==
    UNCHANGED <<pc, ret, sent, mr_resp, mr_time, ever_succeeded, interval0, n_slow,
                last_resp, loop_start_interval, loop_resps, sleeps, sess>>

\* Lines 125-149: the click, up to the first test of the loop condition.
Click(resp) ==
    /\ wid.pc = "idle"
    /\ LET e == MakeRequestEffect(Session, resp, clock)
           w == [wid EXCEPT !.polls = 0, !.writes = 0, !.write = "none",
                            !.ending = "none", !.access_token_b = NoToken]
       IN  /\ SetSession(e.s)
           /\ wid' =
                IF e.ret.kind = "raise" /\ e.ret.exc \in DeviceClientErrors
                THEN Leave([w EXCEPT !.status = StatusText("Initial request failed", e.ret.msg, 0),
                                     !.instructions = "The token request failed; please try again."],
                           HandlerReturned)
                ELSE IF e.ret.kind = "raise"
                THEN Leave(w, HandlerRaised(e.ret.exc))
                ELSE [w EXCEPT !.description = "Token requested",
                               !.disabled = TRUE,
                               !.instructions = "Please go to the following link",
                               !.pc = "w_test",
                               !.out = NotClicked]
    /\ UNCHANGED <<clock, token_file, token_ret, inst>>
    /\ ClientCallsUnchanged
    /\ UNCHANGED pvars

\* Lines 151-161 and, when the condition fails, 176-188.
WidgetTest ==
    /\ wid.pc = "w_test"
    /\ wid' = IF LoopCondition(clock, Session)
              THEN [wid EXCEPT !.pc = "w_poll",
                               !.status = StatusText("Request in progress", "",
                                                     expires_at - clock)]
              ELSE AfterLoop([wid EXCEPT !.ending = "expired"], "ok")
    /\ SessionUnchanged /\ ClientCallsUnchanged
    /\ UNCHANGED <<clock, token_file, token_ret, inst>>
    /\ UNCHANGED pvars

\* Lines 162-170 and, when the loop is left, 176-188.
WidgetPoll(resp, how) ==
    /\ wid.pc = "w_poll"
    /\ LET e == PollForToken(Session, resp)
           w == [wid EXCEPT !.polls = @ + e.sent]
           got == e.ret.kind = "token"
       IN  /\ SetSession(e.s)
           /\ how # "ok" => got /\ Truthy(e.ret.token)
           /\ wid' =
                IF e.ret.kind = "raise" /\ e.ret.exc \in DeviceClientErrors
                THEN AfterLoop([w EXCEPT !.status = StatusText("Request failed", e.ret.msg, 0),
                                         !.ending = "failed"], how)
                ELSE IF e.ret.kind = "raise"
                THEN Leave(Finally([w EXCEPT !.ending = "error"]), HandlerRaised(e.ret.exc))
                ELSE IF got
                THEN AfterLoop([w EXCEPT !.access_token_b = e.ret.token, !.ending = "token"], how)
                ELSE [w EXCEPT !.pc = "w_sleep"]
           /\ token_file' = IF got /\ Truthy(e.ret.token)
                            THEN WrittenFile(token_file, e.ret.token, how)
                            ELSE token_file
    /\ ClientCallsUnchanged
    /\ UNCHANGED <<clock, token_ret, inst>>
    /\ UNCHANGED pvars

\* The runs end when the clock passes MaxTimeWidget.
SoonEnough(t) == t <= MaxTimeWidget

\* Line 171.
WidgetSleep ==
    /\ wid.pc = "w_sleep"
    /\ IF NegativeSleep(interval)
       THEN /\ wid' = Leave(Finally([wid EXCEPT !.ending = "error"]), HandlerRaised(SleepFailure("").exc))
            /\ clock' = clock
       ELSE /\ SoonEnough(clock + interval)
            /\ wid' = [wid EXCEPT !.pc = "w_test"]
            /\ clock' = clock + interval
    /\ SessionUnchanged /\ ClientCallsUnchanged
    /\ UNCHANGED <<token_file, token_ret, inst>>
    /\ UNCHANGED pvars

\* Lines 172-174 and 185-188: the kernel is interrupted while the handler
\* waits for the answer to a poll or sleeps.
Interrupt ==
    /\ wid.pc \in {"w_poll", "w_sleep"}
    /\ wid' = Cancelled(wid)
    /\ SessionUnchanged /\ ClientCallsUnchanged
    /\ UNCHANGED <<clock, token_file, token_ret, inst>>
    /\ UNCHANGED pvars

\* Time passing between two clicks, and while a poll is on its way.
TickWidget ==
    /\ wid.pc \in {"idle", "w_poll"}
    /\ SoonEnough(clock + DEFAULT_INTERVAL)
    /\ clock' = clock + DEFAULT_INTERVAL
    /\ SessionUnchanged /\ ClientCallsUnchanged
    /\ UNCHANGED <<wid, token_file, token_ret, inst>>
    /\ UNCHANGED pvars

----------------------------------------------------------------------------
(* The specifications *)

InitDevice ==
    /\ clock = StartTime
    /\ InitDeviceClient
    /\ status_last_update = 0
    /\ status_next_update = 0
    /\ status = EmptyStatus
    /\ mpc = "idle"
    /\ end_time = NoEndTime
    /\ mret = NoMonitor
    /\ upd = NotRecorded
    /\ InitTokenFile
    /\ wid = NoWidgets
    /\ inst = NoInstances

NextDevice ==
    \/ \E resp \in MRResponses : make_request(resp)
    \/ \E resp \in PollResponses : poll_for_token(resp)
    \/ poll_for_token_loop
    \/ LoopTest
    \/ \E resp \in PollResponses : LoopPoll(resp)
    \/ LoopSleep
    \/ TickDevice

SpecDevice == InitDevice /\ [][NextDevice]_vars

\* The polling loop of a session whose polls are all answered with
\* authorization_pending or slow_down.
NextLoop ==
    \/ \E resp \in LoopResponses : make_request(resp)
    \/ poll_for_token_loop
    \/ LoopTest
    \/ \E resp \in KeepPolling : LoopPoll(resp)
    \/ LoopSleep
    \/ TickDevice

SpecLoop == InitDevice /\ [][NextLoop]_vars

\* The device client again, with the record of the session kept and the
\* answers to make_request drawn from SessionResponses.
InitSession ==
    /\ clock = StartTime
    /\ InitClient(TRUE)
    /\ status_last_update = 0
    /\ status_next_update = 0
    /\ status = EmptyStatus
    /\ mpc = "idle"
    /\ end_time = NoEndTime
    /\ mret = NoMonitor
    /\ upd = NotRecorded
    /\ InitTokenFile
    /\ wid = NoWidgets
    /\ inst = NoInstances

NextSession ==
    \/ \E resp \in SessionResponses : make_request(resp)
    \/ \E resp \in SessionPolls : poll_for_token(resp)
    \/ poll_for_token_loop
    \/ LoopTest
    \/ \E resp \in SessionPolls : LoopPoll(resp)
    \/ LoopSleep
    \/ TickDevice

SpecSession == InitSession /\ [][NextSession]_vars

\* The calls that update the status of a placement, with the record of the
\* last call kept.
InitPlacementSpec ==
    /\ InitPlacement(TRUE) /\ InitDeviceClient /\ InitTokenFile
    /\ wid = NoWidgets
    /\ inst = NoInstances

NextPlacement ==
    \/ \E force \in BOOLEAN : update(force)
    \/ show_status
    \/ \E budget \in ZeroBudgets : monitor_jobs(budget)
    \/ TickPlacement

SpecPlacement == InitPlacementSpec /\ [][NextPlacement]_vars

\* monitor_jobs, between other calls on the placement.
InitMonitor ==
    /\ InitPlacement(FALSE) /\ InitDeviceClient /\ InitTokenFile
    /\ wid = NoWidgets
    /\ inst = NoInstances

NextMonitor ==
    \/ \E force \in BOOLEAN : update(force)
    \/ show_status
    \/ \E budget \in Budgets : monitor_jobs(budget)
    \/ MonitorPass
    \/ MonitorSleep
    \/ TickPlacement

SpecMonitor == InitMonitor /\ [][NextMonitor]_vars

\* monitor_jobs alone, in runs that do not stop at a bound.  The thread that
\* called monitor_jobs keeps running: a pass that can be made is made (every
\* query returns or raises), and a sleep ends.
NextMonitorLive ==
    \/ \E budget \in LoopBudgets : monitor_jobs(budget)
    \/ MonitorPassLate
    \/ MonitorSleepLate

SpecMonitorLive ==
    /\ InitMonitor
    /\ [][NextMonitorLive]_vars
    /\ WF_vars(MonitorPassLate)
    /\ WF_vars(MonitorSleepLate)

\* The token file and its inspection.
\* The widgets of the device flow, clicked again and again.
InitWidget ==
    /\ clock = StartTime
    /\ InitDeviceClient
    /\ status_last_update = 0
    /\ status_next_update = 0
    /\ status = EmptyStatus
    /\ mpc = "idle"
    /\ end_time = NoEndTime
    /\ mret = NoMonitor
    /\ upd = NotRecorded
    /\ InitTokenFile
    /\ wid = InitWidgets
    /\ inst = NoInstances

NextWidget ==
    \/ \E resp \in WidgetResponses : Click(resp)
    \/ WidgetTest
    \/ \E resp \in WidgetPolls, how \in WriteOutcomes : WidgetPoll(resp, how)
    \/ WidgetSleep
    \/ Interrupt
    \/ TickWidget

SpecWidget == InitWidget /\ [][NextWidget]_vars

\* Two clients and two placements, called in any order.
InitInstances ==
    /\ clock = StartTime
    /\ InitDeviceClient
    /\ status_last_update = 0
    /\ status_next_update = 0
    /\ status = EmptyStatus
    /\ mpc = "idle"
    /\ end_time = NoEndTime
    /\ mret = NoMonitor
    /\ upd = NotRecorded
    /\ InitTokenFile
    /\ wid = NoWidgets
    /\ inst \in TwoOfEach

NextInstances ==
    \/ \E i \in Instances, resp \in InstanceResponses : InstanceMakeRequest(i, resp)
    \/ \E i \in Instances, resp \in InstancePolls : InstancePoll(i, resp)
    \/ \E i \in Instances, force \in BOOLEAN, q \in InstanceQueries : InstanceUpdate(i, force, q)
    \/ \E i \in Instances : InstanceMonitor(i)
    \/ TickInstances

SpecInstances == InitInstances /\ [][NextInstances]_vars

InitToken ==
    /\ clock = StartTime
    /\ InitTokenFile
    /\ InitDeviceClient
    /\ status_last_update = 0
    /\ status_next_update = 0
    /\ status = EmptyStatus
    /\ mpc = "idle"
    /\ end_time = NoEndTime
    /\ mret = NoMonitor
    /\ upd = NotRecorded
    /\ wid = NoWidgets
    /\ inst = NoInstances

NextToken ==
    \/ write_token
    \/ TokenFileLost
    \/ get_token_state
    \/ TickToken

SpecToken == InitToken /\ [][NextToken]_vars

----------------------------------------------------------------------------
(* Properties of the device client *)

TimedOut == "DeviceClientTimedOut"

\* The step in which a running poll_for_token_loop ends.
LoopEnds == pc # "idle" /\ pc' = "idle"

\* The loop condition of line 153 is evaluated and finds the deadline reached.
DeadlineReached == pc = "loop_test" /\ clock >= expires_at

PollFailures ==
    {"DeviceClientError", "DeviceClientUnexpectedOutput", "DeviceClientAccessDenied",
     "DeviceClientTimedOut", "AttributeError"}

----------------------------------------------------------------------------

\* The number a JSON value states, when it states a whole number (a numeric
\* string is read as its number).
Denotes(v, x) == v.k \in {"int", "str"} /\ x = v.n

HasRequired(r) ==
    /\ r.kind = "json"
    /\ r.device_code # NoKey /\ r.user_code # NoKey /\ r.verification_uri # NoKey
    /\ r.expires_in # JAbsent

AfterMakeRequest == ret.op = MR

StringFieldsFrom(r) ==
    /\ device_code = r.device_code
    /\ user_code = r.user_code
    /\ verification_uri = r.verification_uri
    /\ verification_uri_complete =
          (IF r.verification_uri_complete = NoKey
           THEN r.verification_uri ELSE r.verification_uri_complete)

\* C2 as stated: after make_request on any response carrying device_code,
\* expires_in, user_code and verification_uri, the session holds the response's
\* values, expires_at = call time + expires_in, interval = the response's
\* interval (5 when absent), and in_progress is true.
C2_PopulatesFromAnyCarrying ==
    AfterMakeRequest /\ HasRequired(mr_resp) =>
        /\ StringFieldsFrom(mr_resp)
        /\ Denotes(mr_resp.expires_in, expires_at - mr_time)
        /\ IF mr_resp.interval = JAbsent THEN interval = 5
           ELSE Denotes(mr_resp.interval, interval)
        /\ request_in_progress

\* A JSON value that float() / int() accept.
Numeric(v) == v.k \in {"int", "half", "str"}

\* C2 amended: the same, for the responses whose expires_in is a number (or a
\* numeric string) and whose interval, when present, is one as well; interval
\* is then the whole part of the response's interval (10.5 gives 10).
C2_PopulatesFromValid ==
    AfterMakeRequest /\ HasRequired(mr_resp) /\ Numeric(mr_resp.expires_in)
                     /\ (mr_resp.interval = JAbsent \/ Numeric(mr_resp.interval)) =>
        /\ StringFieldsFrom(mr_resp)
        /\ expires_at = mr_time + mr_resp.expires_in.n
        /\ interval = (IF mr_resp.interval = JAbsent THEN 5 ELSE mr_resp.interval.n)
        /\ request_in_progress
        /\ ret.kind = "ok"

\* A valid response has been processed some time after the client was made,
\* on a client that held another session before.
C2_Witness ==
    /\ AfterMakeRequest /\ ret.kind = "ok"
    /\ mr_resp.device_code = "dcB" /\ mr_resp.interval = JHalf(10)
    /\ mr_resp.verification_uri_complete = NoKey
    /\ mr_time > StartTime
    /\ n_slow = 0 /\ interval0 = 10

----------------------------------------------------------------------------

MissingRequired(r) ==
    /\ r.kind = "json"
    /\ \/ r.device_code = NoKey \/ r.user_code = NoKey \/ r.verification_uri = NoKey
       \/ r.expires_in = JAbsent

\* C3: whenever make_request gets a response with a required field missing,
\* it fails with the unexpected-output failure and in_progress is false after
\* the call, in every reachable state of the client.
C3_MissingFieldLeavesNotInProgress ==
    AfterMakeRequest /\ MissingRequired(mr_resp) =>
        /\ ret.exc = "DeviceClientUnexpectedOutput"
        /\ ~request_in_progress

----------------------------------------------------------------------------

\* C4: on a client on which no make_request has succeeded, poll_for_token and
\* poll_for_token_loop fail with the request-not-in-progress failure and send
\* no request, whatever the other session fields hold.
C4_PollBeforeRequestFails ==
    ~ever_succeeded /\ ret.op \in {PT, PL} =>
        /\ ret = Raised(ret.op, "DeviceClientRequestNotInProgress", "")
        /\ sent = 0
        /\ pc = "idle"

\* A poll was refused on a client whose fields a failed make_request had set.
C4_Witness ==
    /\ ~ever_succeeded /\ ret.op = PT
    /\ device_code = "dcA" /\ expires_at > clock /\ interval = 5 /\ user_code = "ucA"

----------------------------------------------------------------------------

LoopReturnedToken == pc = "idle" /\ ret.op = PL /\ ret.kind = "token"

\* C5: when poll_for_token_loop returns the token, interval equals the
\* interval set by make_request plus 5 for every slow_down answered since.
C5_IntervalAfterSlowDowns ==
    LoopReturnedToken => interval = interval0 + n_slow * 5

Range(q) == {q[i] : i \in DOMAIN q}

\* The loop returned after two slow_down answers and a pending one.
C5_Witness ==
    /\ LoopReturnedToken
    /\ n_slow = 2
    /\ "authorization_pending" \in Range(loop_resps)
    /\ "slow_down" \in Range(loop_resps)

----------------------------------------------------------------------------

SlowDownsAmong(q, k) == Cardinality({j \in 1..k : q[j] = "slow_down"})

\* C6: the k-th sleep of the loop lasts the interval in effect right after
\* the k-th answer was processed: the interval at loop entry plus 5 for each
\* slow_down among the first k answers; answers after the k-th do not change it.
C6_SleepUsesCurrentInterval ==
    /\ Len(loop_resps) = Len(sleeps) + (IF pc = "loop_sleep" THEN 1 ELSE 0)
    /\ \A k \in 1..Len(sleeps) :
          sleeps[k] = loop_start_interval + 5 * SlowDownsAmong(loop_resps, k)

\* A pending answer and then a slow_down answer, each followed by its sleep:
\* the first sleep is shorter than the second.
C6_Witness ==
    /\ Len(sleeps) = 2
    /\ loop_resps = <<"authorization_pending", "slow_down">>
    /\ sleeps[1] < sleeps[2]

----------------------------------------------------------------------------
(* Properties of the placement's status updates *)

\* The last call of _update_status was not forced and followed, by less than
\* MIN_DELAY_BETWEEN_UPDATES, a non-forced call that went as in `how`.
SecondOfTwo(how) == upd # NotRecorded /\ ~upd.force /\ upd.near \in how

\* C7 as stated: of two non-forced update calls less than
\* MIN_DELAY_BETWEEN_UPDATES apart, the first of which queried the scheduler,
\* the second issues no query, whatever the outcome of the first one's query.
C7_SecondSkippedWhateverOutcome ==
    SecondOfTwo({"failed", "updated"}) => ~upd.queried

\* C7 amended: the second call issues no query when the query of the first
\* call succeeded.  (A failed query leaves status_next_update as it was, and
\* the second call then queries again.)
C7_SecondSkippedAfterSuccess ==
    SecondOfTwo({"updated"}) => ~upd.queried /\ ~upd.ok

\* A call was skipped five seconds after the call that updated the status.
C7_Witness ==
    /\ SecondOfTwo({"updated"}) /\ ~upd.queried
    /\ clock > status_last_update
    /\ clock < status_next_update

\* C8: a call of _update_status with force = true issues its query, whatever
\* status_last_update and status_next_update hold.
C8_ForcedAlwaysQueries ==
    upd # NotRecorded /\ upd.force => upd.queried

\* A forced call queried (and failed) while a non-forced call would have been
\* too soon.
C8_Witness ==
    /\ upd # NotRecorded /\ upd.force /\ upd.queried /\ ~upd.ok
    /\ upd.t = clock
    /\ clock < status_next_update

----------------------------------------------------------------------------
(* Properties of monitor_jobs *)

\* C9: monitor_jobs with a budget of zero issues exactly one query, reports
\* the status once and returns without sleeping, whether the query succeeds
\* or fails.
C9_ZeroBudgetOneQuery ==
    mret.kind = "checked" =>
        mret.queries = 1 /\ mret.reports = 1 /\ ~mret.slept /\ mpc = "idle"

\* A pass of the monitor loop has just run.
PassDone == mpc = "m_update" /\ mpc' # "m_update"

\* C10: a pass of the monitor loop that finds more than MAX_STATUS_WAIT
\* seconds elapsed since the last successful update stops the monitoring and
\* reports it stalled.
C10_StallStopsMonitor ==
    [][PassDone /\ status_last_update' > 0
                /\ clock' - status_last_update' > MAX_STATUS_WAIT
            => mret'.kind = "stalled" /\ mpc' = "idle"]_vars

----------------------------------------------------------------------------
(* Properties of get_token_state *)

\* get_token_state has just been called on the file as it is, at this time.
Inspected == token_ret # NoInspection

TokenStates == {"MISSING", "UNREADABLE", "EXPIRED", "OK"}

\* The file has a second segment that decodes to JSON.
PayloadIsJson ==
    /\ token_file.kind = "file" /\ Len(token_file.segs) >= 2
    /\ token_file.segs[2].rem # 1
    /\ token_file.segs[2].text.t \in {"object", "list", "string", "number", "null"}

PayloadText == token_file.segs[2].text

\* The payload is a JSON object whose exp is a JSON number.
NumericExp == PayloadIsJson /\ PayloadText.t = "object" /\ PayloadText.exp.k \in {"int", "huge"}

\* C11: get_token_state never raises: whatever the file holds, it returns one
\* of the four token states, and a payload that is JSON without a numeric exp
\* (no exp, not an object, exp not a number) gives UNREADABLE.
C11_NeverRaises ==
    Inspected =>
        /\ token_ret.exc = "none"
        /\ token_ret.state \in TokenStates
        /\ (PayloadIsJson /\ ~NumericExp => token_ret.state = "UNREADABLE")

\* C12: with a payload that is a JSON object with a numeric exp the state is
\* EXPIRED exactly when exp < now and OK otherwise; a file with fewer than two
\* segments gives UNREADABLE, no file MISSING, a file that cannot be read
\* UNREADABLE.
C12_ExpiredExactlyWhenPast ==
    Inspected =>
        /\ NumericExp =>
              token_ret = TokenState(IF PayloadText.exp.k = "int" /\ PayloadText.exp.n < clock
                                     THEN "EXPIRED" ELSE "OK")
        /\ token_file.kind = "file" /\ Len(token_file.segs) < 2 =>
              token_ret = TokenState("UNREADABLE")
        /\ token_file.kind = "missing" => token_ret = TokenState("MISSING")
        /\ token_file.kind = "unreadable" => token_ret = TokenState("UNREADABLE")

----------------------------------------------------------------------------
(* Properties of the status counts *)

\* The last call of _update_status updated the status; upd.jobs holds the
\* records its query returned.
Updated == upd # NotRecorded /\ upd.ok

NumberWith(code) == Cardinality({i \in DOMAIN upd.jobs : upd.jobs[i].JobStatus = code})

\* C13: after a successful update the counts of idle, running, removed,
\* completed, transferring_output and suspended are the numbers of records of
\* that query with the status codes 1, 2, 3, 4, 6 and 7, whatever the counts
\* were before.
C13_CountsFromQueryAlone ==
    Updated =>
        /\ status["idle"] = NumberWith(1)
        /\ status["running"] = NumberWith(2)
        /\ status["removed"] = NumberWith(3)
        /\ status["completed"] = NumberWith(4)
        /\ status["transferring_output"] = NumberWith(6)
        /\ status["suspended"] = NumberWith(7)

\* A forced update right after another update found two idle jobs and a
\* running one: idle = 2, running = 1, every other count 0.
C13_Witness ==
    /\ Updated /\ upd.force /\ upd.near = "updated"
    /\ Len(upd.jobs) = 3
    /\ status = [EmptyStatus EXCEPT !["idle"] = 2, !["running"] = 1]

Spooling(job) == job.HoldReasonCode = {16}

\* C14: after a successful update every record with status code 5 is counted
\* once: under transferring_input when its hold reason code is 16, under held
\* when it is another code or absent.
C14_HeldOrTransferringInput ==
    Updated =>
        /\ status["transferring_input"] =
              Cardinality({i \in DOMAIN upd.jobs :
                              upd.jobs[i].JobStatus = 5 /\ Spooling(upd.jobs[i])})
        /\ status["held"] =
              Cardinality({i \in DOMAIN upd.jobs :
                              upd.jobs[i].JobStatus = 5 /\ ~Spooling(upd.jobs[i])})
        /\ status["held"] + status["transferring_input"] = NumberWith(5)

\* The query of an update made after the construction returned a held job
\* spooling its input and one with no hold reason code.
C14_Witness ==
    /\ Updated /\ upd.t > StartTime /\ Len(upd.jobs) = 2 /\ NumberWith(5) = 2
    /\ status["held"] = 1 /\ status["transferring_input"] = 1
    /\ \E i \in DOMAIN upd.jobs : upd.jobs[i].HoldReasonCode = {}

\* C15: a call of _update_status whose query fails returns False and leaves
\* the counts, status_last_update and status_next_update as they were.
C15_FailedQueryChangesNothing ==
    [][upd' # NotRecorded /\ upd'.queried /\ ~upd'.ok
          => UNCHANGED <<status, status_last_update, status_next_update>>]_vars

\* A query failed after an earlier one had updated the status: the counts and
\* the time stamps of that update are still there.
C15_Witness ==
    /\ upd # NotRecorded /\ upd.queried /\ ~upd.ok /\ upd.t = clock
    /\ status_last_update > 0 /\ status_last_update < clock
    /\ status["idle"] = 2

----------------------------------------------------------------------------
(* Properties of the returns of monitor_jobs *)

\* A pass of the monitor loop returns from monitor_jobs.
PassReturns == mpc = "m_update" /\ mpc' = "idle"

\* C16: every return of monitor_jobs from its loop reports one of done,
\* stalled and budget-exhausted; done only right after an update that
\* succeeded and shows no job idle, running or transferring, and always then,
\* also when the budget is exhausted in the same pass.
C16_OneOfThreeOutcomes ==
    [][PassReturns =>
          LET in_progress == status'["idle"] + status'["running"]
                             + status'["transferring_input"] + status'["transferring_output"]
              exhausted == ~end_time.inf /\ status_next_update' > end_time.t
          IN  /\ mret'.kind \in {"done", "stalled", "budget"}
              /\ mret'.kind = "done" => mret'.updated /\ in_progress = 0
              /\ mret'.updated /\ in_progress = 0 => mret'.kind = "done"
              /\ mret'.kind = "budget" => exhausted]_vars

\* monitor_jobs returned done from a pass in which the budget was exhausted
\* as well.
C16_Witness ==
    /\ mpc = "idle" /\ mret.kind = "done" /\ mret.updated /\ mret.past_end
    /\ status["completed"] = 1

----------------------------------------------------------------------------
(* Properties of the answers of poll_for_token *)

\* poll_for_token was the last call, and it sent its request; last_resp is
\* the answer it got.
Polled == ret.op = PT /\ sent = 1

\* C17: poll_for_token returns None (no token yet) only for an HTTP 400
\* answer with the error authorization_pending or slow_down.
C17_NoneOnlyWhenPending ==
    Polled /\ ret.kind = "none" =>
        /\ last_resp.kind = "http" /\ last_resp.status = 400
        /\ last_resp.error \in {"authorization_pending", "slow_down"}

\* C18: an HTTP 400 answer with access_denied gives the access-denied failure
\* and one with expired_token the timed-out failure; each of the two failures
\* comes from its own error only, and the unexpected-output failure from
\* neither.
C18_DeniedAndExpired ==
    Polled =>
        /\ last_resp.status = 400 /\ last_resp.error = "access_denied" =>
              ret = Raised(PT, "DeviceClientAccessDenied", "")
        /\ last_resp.status = 400 /\ last_resp.error = "expired_token" =>
              ret.kind = "raise" /\ ret.exc = "DeviceClientTimedOut"
        /\ ret.exc = "DeviceClientAccessDenied" =>
              last_resp.status = 400 /\ last_resp.error = "access_denied"
        /\ ret.exc = "DeviceClientTimedOut" =>
              last_resp.status = 400 /\ last_resp.error = "expired_token"
        /\ ret.exc = "DeviceClientUnexpectedOutput" =>
              last_resp.error \notin {"access_denied", "expired_token"}

\* The server answered access_denied to a poll of a session that had not
\* reached its deadline.
C18_Witness ==
    /\ Polled /\ last_resp.error = "access_denied"
    /\ ret.exc = "DeviceClientAccessDenied"
    /\ request_in_progress /\ clock < expires_at

KnownErrors == {"authorization_pending", "slow_down", "access_denied", "expired_token"}

\* C19: an HTTP 400 answer whose error is none of the four known ones, or
\* whose body has no error key, gives the unexpected-output failure.
C19_UnknownErrorIsUnexpected ==
    Polled /\ last_resp.kind = "http" /\ last_resp.status = 400
           /\ last_resp.error \notin KnownErrors =>
        ret.kind = "raise" /\ ret.exc = "DeviceClientUnexpectedOutput"

\* The server answered a poll with HTTP 400 and the error invalid_grant.
C19_Witness ==
    /\ Polled /\ last_resp.status = 400 /\ last_resp.error = "invalid_grant"
    /\ ret = Unexpected(PT, "Server responds with unexpected failure")

\* C20: on an HTTP 200 answer poll_for_token returns the access_token as
\* bytes exactly when access_token and token_type are both present and
\* token_type is "placement" in any letter case; otherwise it fails with the
\* unexpected-output failure and returns no token.
C20_TokenExactlyWhenPlacement ==
    Polled /\ last_resp.kind = "http" /\ last_resp.status = 200 =>
        IF /\ last_resp.access_token # NoKey
           /\ last_resp.token_type \in {"placement", "Placement"}
        THEN ret.kind = "token" /\ ret.token # NoToken
        ELSE ret.exc = "DeviceClientUnexpectedOutput" /\ ret.token = NoToken

----------------------------------------------------------------------------
(* Properties of the session of the device client (SpecSession) *)

\* The causes of a failure of make_request before the body is used.
MRCauses == {"conn_error", "http_error", "http_error_json", "non_json"}

CauseOf(kind) == IF kind = "http_error_json" THEN "http_error" ELSE kind

\* C21: make_request signals a connection failure, an HTTP error status and
\* a non-JSON body by failures of different kinds: the failure of a non-JSON
\* body is the unexpected-output failure, the failure of an HTTP error status
\* carries the server's error field when the body has one, and no two
\* different causes give the same kind of failure.
C21_FailureKindTellsCause ==
    AfterMakeRequest /\ mr_resp.kind \in MRCauses =>
        /\ ret.kind = "raise"
        /\ mr_resp.kind = "non_json" => ret.exc = "DeviceClientUnexpectedOutput"
        /\ mr_resp.kind = "http_error_json" =>
              ret.msg = "Initial request resulted in; message from server"
        /\ \A k \in MRCauses :
              CauseOf(k) # CauseOf(mr_resp.kind) =>
                  MakeRequestEffect(Session, MRFailure(k), clock).ret.exc # ret.exc

----------------------------------------------------------------------------

\* The outcomes of a poll operation that end the session.
Terminal(r) ==
    /\ r.op \in {PT, PL}
    /\ \/ r.kind = "token"
       \/ r.exc \in {"DeviceClientAccessDenied", "DeviceClientTimedOut",
                     "DeviceClientUnexpectedOutput"}

\* A step that is a whole call of poll_for_token.
DirectPoll == pc = "idle" /\ pc' = "idle" /\ ret'.op = PT /\ clock' = clock

\* C22: once a poll operation has returned a token or failed with access
\* denied, timed out or unexpected output, in_progress is false, and a
\* poll_for_token that follows with no make_request in between fails with the
\* request-not-in-progress failure and sends no request.
C22_TerminalOutcomeEndsSession ==
    [][/\ Terminal(ret') /\ pc' = "idle" => ~request_in_progress'
       /\ Terminal(ret) /\ DirectPoll =>
            /\ ret' = Raised(PT, "DeviceClientRequestNotInProgress", "")
            /\ sent' = 0]_vars

----------------------------------------------------------------------------

\* A poll of the loop starts: the loop condition of line 153 has let it pass.
LoopPollStarts == pc = "loop_test" /\ pc' = "loop_poll"

\* C23: a poll request is sent only when, at the moment the poll starts,
\* in_progress is true and now < expires_at, in a direct call of
\* poll_for_token as in a poll of poll_for_token_loop.
C23_PollsOnlyWhileValid ==
    [][(DirectPoll /\ sent' = 1) \/ LoopPollStarts =>
            request_in_progress /\ clock < expires_at]_vars

----------------------------------------------------------------------------

----------------------------------------------------------------------------

\* The typed failure that an answer to a poll stands for ("none" for an
\* answer that is no failure of the kinds listed in C25).
FailureOf(resp) ==
    CASE resp.kind = "conn_error" -> "DeviceClientError"
      [] resp.kind = "non_json" -> "DeviceClientUnexpectedOutput"
      [] resp.status = 400 /\ resp.error = "access_denied" -> "DeviceClientAccessDenied"
      [] resp.status = 400 /\ resp.error = "expired_token" -> "DeviceClientTimedOut"
      [] resp.status = 400 /\ resp.error \notin {"authorization_pending", "slow_down"} ->
           "DeviceClientUnexpectedOutput"
      [] resp.status = 200 /\ (resp.access_token = NoKey \/ resp.token_type = NoKey) ->
           "DeviceClientUnexpectedOutput"
      [] resp.status = 200 /\ resp.token_type = "bearer" -> "DeviceClientUnexpectedOutput"
      [] resp.status = 200 /\ resp.token_type \in {"placement", "Placement"}
                           /\ resp.access_token = NonStr -> "DeviceClientUnexpectedOutput"
      [] OTHER -> "none"

\* C25: a poll_for_token call sends at most one request and fails with the
\* failure its answer stands for; inside poll_for_token_loop every request but
\* the last was answered "no token yet", and an answer that stands for a
\* failure ends the loop at once with that failure.
C25_FailedPollEndsLoop ==
    /\ ret.op = PT =>
          /\ sent \in {0, 1}
          /\ sent = 1 /\ FailureOf(last_resp) # "none" =>
                ret.kind = "raise" /\ ret.exc = FailureOf(last_resp)
    /\ ret.op = PL =>
          /\ sent \in {Len(loop_resps), Len(loop_resps) + 1}
          /\ sent > 0 /\ FailureOf(last_resp) # "none" =>
                /\ pc = "idle"
                /\ ret.kind = "raise" /\ ret.exc = FailureOf(last_resp)
                /\ sent = Len(loop_resps) + 1

\* The second poll of a loop lost the connection and the loop ended with it.
C25_Witness ==
    /\ pc = "idle" /\ ret.op = PL
    /\ ret = Raised(PL, "DeviceClientError", "Lost connection to server")
    /\ Len(loop_resps) = 1 /\ sent = 2 /\ last_resp.kind = "conn_error"

----------------------------------------------------------------------------

\* A step in which a poll is made: a call of poll_for_token, or the poll of
\* one pass of poll_for_token_loop.
PollMade == DirectPoll \/ (pc = "loop_poll" /\ pc' # "loop_poll")

\* C29: a poll leaves device_code, user_code, the verification URIs,
\* expires_at and in_progress as they were, whatever its outcome, and leaves
\* interval as it was unless the answer was slow_down, which adds 5 to it.
C29_PollChangesIntervalOnly ==
    [][PollMade =>
          /\ UNCHANGED <<device_code, user_code, verification_uri,
                         verification_uri_complete, expires_at, request_in_progress>>
          /\ interval' = IF last_resp'.status = 400 /\ last_resp'.error = "slow_down"
                         THEN interval + 5 ELSE interval]_vars

\* A poll has returned the token of a session whose interval an earlier
\* slow_down answer had raised from 10 to 15.
C29_Witness ==
    /\ ret.op = PT /\ ret.kind = "token" /\ sent = 1
    /\ request_in_progress /\ device_code = "dcB"
    /\ interval0 = 10 /\ n_slow = 1 /\ interval = 15

----------------------------------------------------------------------------
(* Properties of the monitor loop *)

Monitoring == mpc # "idle"

\* C26: monitor_jobs called with a finite positive budget eventually returns,
\* whatever the scheduler answers to its queries (here: for every call whose
\* deadline is earlier than MaxTimeMonitor).
C26_FiniteBudgetReturns ==
    [](Monitoring /\ ~end_time.inf /\ end_time.t < MaxTimeMonitor => <>(~Monitoring))

\* C27: monitor_jobs called with an infinite budget eventually returns when
\* every query fails from some time on (in SpecMonitorLive every query made at
\* MaxTimeMonitor or later fails).
C27_InfiniteBudgetStalls ==
    [](Monitoring /\ end_time.inf => <>(~Monitoring))

\* The sleep of line 347 ends.
SleepEnds == mpc = "m_sleep" /\ mpc' = "m_update"

\* C28: with a finite positive budget, no sleep of monitor_jobs ends after
\* the deadline and no pass issues a query after it.
C28_NoQueryPastDeadline ==
    [][/\ SleepEnds /\ ~end_time.inf => clock' <= end_time.t
       /\ PassDone /\ ~end_time.inf /\ clock >= status_next_update =>
            clock <= end_time.t]_vars

----------------------------------------------------------------------------
(* Properties of the time stamps of the placement *)

\* C30 as stated: in every reachable state either no update has succeeded
\* and both time stamps are 0, or status_next_update is status_last_update
\* plus MIN_DELAY_BETWEEN_UPDATES.
C30_NextIsLastPlusDelay ==
    \/ status_last_update = 0 /\ status_next_update = 0
    \/ status_next_update = status_last_update + MIN_DELAY_BETWEEN_UPDATES

\* A step that sets the time stamps.
Stamped ==
    <<status_last_update, status_next_update>>' # <<status_last_update, status_next_update>>

\* Both time stamps are 0, or the second is at least MIN_DELAY_BETWEEN_UPDATES
\* after the first.
StampsInOrder ==
    \/ status_last_update = 0 /\ status_next_update = 0
    \/ /\ status_last_update > 0
       /\ status_next_update >= status_last_update + MIN_DELAY_BETWEEN_UPDATES

\* C30 amended: an update that succeeds sets status_last_update to a clock
\* value read during the call, after the query, and status_next_update to the
\* clock value read last in the call plus MIN_DELAY_BETWEEN_UPDATES; in every
\* reachable state either both are 0 or status_next_update is at least
\* status_last_update plus MIN_DELAY_BETWEEN_UPDATES.
C30_StampsOfUpdate ==
    /\ StampsInOrder
    /\ [][/\ Stamped =>
                /\ clock <= status_last_update' /\ status_last_update' <= clock'
                /\ status_next_update' = clock' + MIN_DELAY_BETWEEN_UPDATES
           /\ StampsInOrder']_vars

\* An update after the constructor's has succeeded, and time passed between
\* its two readings of the clock.
C30_Witness ==
    /\ Updated
    /\ status_last_update >= StartTime + MIN_DELAY_BETWEEN_UPDATES
    /\ status_next_update > status_last_update + MIN_DELAY_BETWEEN_UPDATES

----------------------------------------------------------------------------
(* Further properties of make_request *)

\* A step that is a whole call of make_request, and that call fails.
MakeRequestFails == pc = "idle" /\ ret'.op = MR /\ ret'.kind = "raise" /\ clock' = clock

\* C34: a make_request that fails, for whatever reason, leaves every field
\* of the session as it was before the call.
C34_FailedRequestChangesNothing ==
    [][MakeRequestFails =>
          UNCHANGED <<device_code, expires_at, interval, user_code, verification_uri,
                      verification_uri_complete, request_in_progress>>]_vars

----------------------------------------------------------------------------
(* Further properties of the placement's updates *)

\* C36: in every reachable state, a non-forced update called now that is too
\* soon (now < status_next_update) issues no query and returns the placement
\* as it is, and one that succeeds after an earlier successful update stamps
\* status_last_update at least MIN_DELAY_BETWEEN_UPDATES after that update's.
C36_UpdatesAreSpaced ==
    \A q \in QueryOutcomes :
        LET e == UpdateStatus(Placement, clock, FALSE, q)
        IN  /\ clock < status_next_update =>
                  ~e.queried /\ ~e.ret /\ e.p = Placement /\ e.now = clock
            /\ e.ret /\ status_last_update > 0 =>
                  /\ clock >= status_last_update + MIN_DELAY_BETWEEN_UPDATES
                  /\ e.p.status_last_update >= status_last_update + MIN_DELAY_BETWEEN_UPDATES

\* A non-forced update has succeeded less than MIN_DELAY_BETWEEN_UPDATES after
\* a non-forced call that was skipped as too soon.
C36_Witness ==
    /\ Updated /\ ~upd.force /\ upd.near = "skipped"
    /\ status_last_update >= StartTime + MIN_DELAY_BETWEEN_UPDATES

\* The sum of the eight counts.
Total(st) ==
    st["idle"] + st["running"] + st["removed"] + st["completed"] + st["held"]
    + st["transferring_output"] + st["suspended"] + st["transferring_input"]

\* The names a record is counted under.
CountedUnder(job) == {name \in NameSet : Counts(name, job)}

\* C37: every count is a non-negative integer in every reachable state; after
\* a successful update the counts add up to at most the number of records the
\* query returned, to exactly that number if and only if every record's
\* JobStatus is one of 1..7, and no record is counted under two names.
C37_CountsPartitionTheRecords ==
    /\ \A name \in NameSet : status[name] \in Nat
    /\ Updated =>
          /\ Total(status) <= Len(upd.jobs)
          /\ Total(status) = Len(upd.jobs)
                <=> \A i \in DOMAIN upd.jobs : upd.jobs[i].JobStatus \in 1..7
          /\ \A i \in DOMAIN upd.jobs :
                Cardinality(CountedUnder(upd.jobs[i])) <= 1

\* An update has succeeded on an answer with a record outside the codes 1..7,
\* after one on an answer with a held job that is spooling its input.
C37_Witness ==
    /\ Updated
    /\ \E i \in DOMAIN upd.jobs : upd.jobs[i].JobStatus \notin 1..7
    /\ Total(status) = 1
    /\ status_last_update >= StartTime + MIN_DELAY_BETWEEN_UPDATES

----------------------------------------------------------------------------
(* Further properties of the device client's polling loop *)

\* The loop has ended, after at least one poll, with every poll answered
\* authorization_pending or slow_down.
EndedAfterPendingOnly ==
    /\ pc = "idle" /\ ret.op = PL /\ ret.kind # "running"
    /\ loop_resps # <<>>
    /\ last_resp \in KeepPolling
    /\ \A i \in DOMAIN loop_resps : loop_resps[i] \in {"authorization_pending", "slow_down"}

\* C35: a poll_for_token_loop whose polls are all answered authorization_pending
\* or slow_down ends in no other way than with its timed-out failure, raised
\* once now >= expires_at.
C35_PendingLoopEndsTimedOut ==
    EndedAfterPendingOnly =>
        /\ ret = Raised(PL, "DeviceClientTimedOut", "Device code expired")
        /\ clock >= expires_at

----------------------------------------------------------------------------
(* Properties of the widgets' handler *)

\* The handler has ended, its loop having ended the way how.
LoopEnded(how) == wid.pc = "idle" /\ wid.ending = how

\* C31: once the handler's loop has ended, the status text tells how: it does
\* not read 'Request in progress' after the loop ended on now >= expires_at,
\* it reads 'Request failed' after a failed poll, 'Request cancelled' after an
\* interrupt, and 'Request successful, token installed' after a token was
\* obtained and written.
C31_StatusTellsHowLoopEnded ==
    /\ LoopEnded("expired") => wid.status.text # "Request in progress"
    /\ LoopEnded("failed") => wid.status.text = "Request failed"
    /\ LoopEnded("cancelled") => wid.status.text = "Request cancelled"
    /\ LoopEnded("token") /\ wid.write = "ok" =>
          wid.status.text = "Request successful, token installed"

\* A step in which an interrupt reaches the handler while it waits for a
\* poll's answer or sleeps.
Interrupted == wid.pc \in {"w_poll", "w_sleep"} /\ wid'.ending = "cancelled"

\* C32: an interrupt during a poll or the sleep of the handler's loop ends the
\* handler there: no further poll is made, the status becomes 'Request
\* cancelled', no token is written, and KeyboardInterrupt leaves the handler.
C32_InterruptEndsLoop ==
    [][Interrupted =>
          /\ wid'.pc = "idle"
          /\ wid'.polls = wid.polls
          /\ wid'.status.text = "Request cancelled"
          /\ wid'.writes = 0 /\ wid'.access_token_b = NoToken
          /\ token_file' = token_file
          /\ wid'.out = HandlerRaised("KeyboardInterrupt")]_vars

\* The handler was interrupted in the sleep that followed a poll.
C32_Witness == LoopEnded("cancelled") /\ wid.polls >= 1

\* C38: when a poll of the handler's loop returned a token, write_token is
\* called exactly once and, unless it fails, the final status is 'Request
\* successful, token installed'; when the loop ended without a token,
\* write_token is not called.
C38_TokenWrittenOnce ==
    /\ LoopEnded("token") =>
          /\ wid.writes = 1
          /\ wid.write = "ok" => wid.status.text = "Request successful, token installed"
    /\ wid.pc = "idle" /\ wid.ending # "token" => wid.writes = 0

\* C39: the button is disabled exactly while the handler is past its
\* make_request and has not ended; it is enabled whenever the handler is not
\* running, however it ended.
C39_ButtonDisabledWhileRunning ==
    wid.disabled <=> wid.pc \in {"w_test", "w_poll", "w_sleep"}

\* The handler has ended on a failure of write_token, after a run in which the
\* button was disabled.
C39_Witness ==
    /\ LoopEnded("token") /\ wid.out = HandlerRaised("OSError")
    /\ ~wid.disabled /\ wid.description = "Request Another Token"

----------------------------------------------------------------------------
(* Properties of several instances *)

\* What a caller can read of the client i and of the placement i.
ClientFields(in, i) == in.c[i]

PlacementFields(in, i) == PlacementOf(in, i)

\* C33: a call on one DeviceClient leaves every field of the other client and
\* of both placements unchanged, and a call on one Placement leaves the
\* stamps and the counts of the other placement and every field of both
\* clients unchanged.
C33_CallsTouchOwnInstanceOnly ==
    [][inst # NoInstances /\ inst' # inst =>
          \A j \in Instances :
              /\ inst'.call \notin ClientMethods \/ inst'.actor # j =>
                    ClientFields(inst', j) = ClientFields(inst, j)
              /\ inst'.call \notin PlacementMethods \/ inst'.actor # j =>
                    PlacementFields(inst', j) = PlacementFields(inst, j)]_vars

\* Both clients hold a session, with different intervals, and the placements
\* hold different counts stamped at different times, after a call on the
\* second placement.
C33_Witness ==
    /\ inst # NoInstances
    /\ inst.c[1].request_in_progress /\ inst.c[2].request_in_progress
    /\ inst.c[1].interval # inst.c[2].interval
    /\ inst.c[1].expires_at # inst.c[2].expires_at
    /\ PlacementFields(inst, 1).status # PlacementFields(inst, 2).status
    /\ inst.p[1].status_last_update # inst.p[2].status_last_update
    /\ inst.actor = 2 /\ inst.call = "monitor_jobs"

====
